---- MODULE Spec2Model ----
(***************************************************************************)
(* Komatachi: the conversation store (storage/index.ts,                    *)
(* conversation/index.ts), the context selector (context/index.ts), the    *)
(* compaction engine (compaction/index.ts) and the turn loop               *)
(* (agent/index.ts).                                                       *)
(*                                                                         *)
(* Strings are sequences of atoms [t |-> tag, n |-> length in characters]: *)
(* concatenation is \o, the length is the sum of the atoms' lengths, and   *)
(* s.startsWith(p) holds when p's atoms lead s.  A file is a sequence of   *)
(* tokens: J(m), the whole text JSON.stringify(m); P(m), a proper,         *)
(* non-empty prefix of that text (what a crash in the middle of an append  *)
(* leaves); NL, the line feed.                                             *)
(***************************************************************************)
EXTENDS Integers, Sequences, FiniteSets, TLC

VARIABLES
    \* storage/index.ts: the two files of the conversation directory
    metadataFile,        \* <<>> when metadata.json is absent, else its JSON text
    transcriptFile,      \* [exists |-> BOOLEAN, content |-> sequence of tokens]
    \* conversation/index.ts: the in-memory state of the store
    isLoaded,            \* FALSE while loadedMetadata / loadedMessages are null
    loadedMetadata,
    loadedMessages,
    now,                 \* the value the next Date.now() returns
    \* agent/index.ts: processTurn's position and locals
    pc,
    userInput,
    modelCallCount,
    compactionAttempts,
    callMessages,        \* the messages handed to the model call in flight
    response,            \* the response whose tool calls are being dispatched
    toolIdx,             \* index of the tool_use block whose handler is running
    results,             \* dispatchToolCalls' results so far
    keptMessages,        \* triggerCompaction's locals, held across the await
    messagesToCompact,
    previousSummary,     \* <<>> for undefined, else <<string>>
    overflow,            \* the overflow report of the loop's last selectMessages
    outcome,             \* how the last processTurn call ended
    \* the environment: the model, the tools and the user
    env,                 \* [looping, deviations, systemPromptLen], see "Bounds of the model"
    \* history variables (not program state)
    turnNo,              \* processTurn calls started so far
    hist                 \* what the current turn has done so far

storeVars == <<metadataFile, transcriptFile, isLoaded, loadedMetadata, loadedMessages, now>>
turnVars == <<pc, userInput, modelCallCount, compactionAttempts, callMessages, response,
              toolIdx, results, keptMessages, messagesToCompact, previousSummary, overflow,
              outcome>>
histVars == <<turnNo, hist>>
vars == <<storeVars, turnVars, env, histVars>>

----------------------------------------------------------------------------
(* Bounds of the model *)

\* processTurn calls per run
MaxTurns == 2
\* The environment has a default behaviour: the user sends a short input, the
\* model answers with text and end_turn, a tool handler returns its value, the
\* summarizer returns a short summary.  Every other choice (another input, a
\* response with tool calls, a truncated response, a failing tool, a long
\* summary, a call that throws, a model that loops on one tool for the whole
\* turn, identity files rewritten under the agent, a stdin line that is not a
\* short valid input, a caller that does not await a turn) is a deviation, and a
\* run has at most this many of them.
MaxDeviations == 3

----------------------------------------------------------------------------
(* Strings *)

RECURSIVE StrLen(_)
StrLen(s) == IF s = <<>> THEN 0 ELSE Head(s).n + StrLen(Tail(s))

StartsWith(s, p) == Len(s) >= Len(p) /\ SubSeq(s, 1, Len(p)) = p

\* s.slice(p.length), for a string that starts with p
SliceAfter(s, p) == SubSeq(s, Len(p) + 1, Len(s))

Atom(tag, n) == <<[t |-> tag, n |-> n]>>

\* some string of n characters
Chars(n) == IF n = 0 THEN <<>> ELSE Atom("x", n)

\* Math.ceil(length / 4)
CeilDiv4(n) == (n + 3) \div 4

----------------------------------------------------------------------------
(* Constants of the program *)

MAX_MODEL_CALLS_PER_TURN == 25
MAX_COMPACTION_ATTEMPTS == 2
COMPACTION_RESERVE_TOKENS == 20000
SUMMARY_PREFIX == Atom("[Conversation Summary]\n\n", 24)
FALLBACK_SUMMARY == Atom("Summary unavailable. Older conversation history was truncated.", 62)
NO_HISTORY_SUMMARY == Atom("No prior conversation history.", 30)

\* AgentConfig of the agent under test, and the length of the system prompt
\* buildSystemPrompt assembles for it.
contextWindow == 120
maxTokens == 50
systemPromptLen == 80
\* The tool registry: the names findTool finds.
tools == {"calc"}

----------------------------------------------------------------------------
(* Messages and token estimation *)

TextBlock(s) == [type |-> "text", text |-> s]
ToolUseBlock(id, name, jsonLen) ==
    [type |-> "tool_use", id |-> id, name |-> name, input |-> [jsonLen |-> jsonLen]]
\* is_error?: boolean holds "true", or "undefined" when the property is set to
\* undefined; a block read back from a file may lack the property altogether.
Undefined == "undefined"
ToolResultBlock(id, content, isError) ==
    [type |-> "tool_result", tool_use_id |-> id, content |-> content, is_error |-> isError]

\* block.is_error as a condition: a missing or undefined property is falsy
IsError(block) == "is_error" \in DOMAIN block /\ block.is_error = "true"

\* content is [str |-> TRUE, text |-> string] or [str |-> FALSE, blocks |-> sequence]
StringMessage(role, s) == [role |-> role, content |-> [str |-> TRUE, text |-> s]]
BlockMessage(role, bs) == [role |-> role, content |-> [str |-> FALSE, blocks |-> bs]]

\* The text one block contributes to estimateTokens' joined text.
BlockTextLen(b) ==
    IF b.type = "text" THEN StrLen(b.text)
    ELSE IF b.type = "tool_use" THEN b.input.jsonLen
    ELSE StrLen(b.content)

RECURSIVE SumBlockTextLen(_)
SumBlockTextLen(bs) == IF bs = <<>> THEN 0 ELSE BlockTextLen(Head(bs)) + SumBlockTextLen(Tail(bs))

\* blocks.map(...).join("\n").length
JoinedLen(bs) == IF bs = <<>> THEN 0 ELSE SumBlockTextLen(bs) + (Len(bs) - 1)

estimateTokens(message) ==
    IF message.content.str THEN CeilDiv4(StrLen(message.content.text))
    ELSE CeilDiv4(JoinedLen(message.content.blocks))

RECURSIVE estimateMessagesTokens(_)
estimateMessagesTokens(messages) ==
    IF messages = <<>> THEN 0
    ELSE estimateTokens(Head(messages)) + estimateMessagesTokens(Tail(messages))

estimateStringTokens(len) == CeilDiv4(len)

----------------------------------------------------------------------------
(* Context selector *)

\* A walk that stops as soon as the budget is reached: C26 must tell it from
\* FirstSelectedIndex.
RECURSIVE FirstSelectedIndexUntilFull(_, _, _, _, _)
FirstSelectedIndexUntilFull(messages, i, tokenAccumulator, tokenBudget, first) ==
    IF i < 1 THEN first
    ELSE LET msgTokens == estimateTokens(messages[i]) IN
         IF tokenAccumulator + msgTokens >= tokenBudget THEN first
         ELSE FirstSelectedIndexUntilFull(messages, i - 1, tokenAccumulator + msgTokens,
                                          tokenBudget, i)

\* A walk that passes over a message that does not fit and goes on to the older
\* ones: C30 must tell it from FirstSelectedIndex.
RECURSIVE FirstSelectedIndexSkipping(_, _, _, _, _)
FirstSelectedIndexSkipping(messages, i, tokenAccumulator, tokenBudget, first) ==
    IF i < 1 THEN first
    ELSE LET msgTokens == estimateTokens(messages[i]) IN
         IF tokenAccumulator + msgTokens > tokenBudget
         THEN FirstSelectedIndexSkipping(messages, i - 1, tokenAccumulator, tokenBudget, first)
         ELSE FirstSelectedIndexSkipping(messages, i - 1, tokenAccumulator + msgTokens,
                                         tokenBudget, i)

\* The backward walk of selectMessages: the (1-based) index of the first
\* selected message, Len(messages) + 1 when nothing is selected.
RECURSIVE FirstSelectedIndex(_, _, _, _, _)
FirstSelectedIndex(messages, i, tokenAccumulator, tokenBudget, first) ==
    IF i < 1 THEN first
    ELSE LET msgTokens == estimateTokens(messages[i]) IN
         IF tokenAccumulator + msgTokens > tokenBudget THEN first
         ELSE FirstSelectedIndex(messages, i - 1, tokenAccumulator + msgTokens, tokenBudget, i)

NoOverflow == [isNull |-> TRUE]

\* A selection that trims to the budget without reporting it: C33 must tell it
\* from selectMessages.
selectMessagesSilent(messages, tokenBudget) ==
    LET first == FirstSelectedIndex(messages, Len(messages), 0, tokenBudget, Len(messages) + 1)
    IN [selected |-> SubSeq(messages, first, Len(messages)), overflow |-> NoOverflow]

\* A selection whose report counts the whole input: C25 must tell it from
\* selectMessages.
selectMessagesReportingAll(messages, tokenBudget) ==
    LET first == FirstSelectedIndex(messages, Len(messages), 0, tokenBudget, Len(messages) + 1)
    IN [selected |-> SubSeq(messages, first, Len(messages)),
        overflow |-> IF first = 1 THEN NoOverflow
                     ELSE [isNull |-> FALSE, droppedCount |-> Len(messages),
                           estimatedDroppedTokens |-> estimateMessagesTokens(messages)]]

selectMessages(messages, tokenBudget) ==
    IF messages = <<>> THEN [selected |-> <<>>, overflow |-> NoOverflow]
    ELSE LET first == FirstSelectedIndex(messages, Len(messages), 0, tokenBudget,
                                         Len(messages) + 1)
             selected == SubSeq(messages, first, Len(messages))
             dropped == SubSeq(messages, 1, first - 1)
         IN IF first = 1 THEN [selected |-> selected, overflow |-> NoOverflow]
            ELSE [selected |-> selected,
                  overflow |-> [isNull |-> FALSE,
                                droppedCount |-> Len(dropped),
                                estimatedDroppedTokens |-> estimateMessagesTokens(dropped)]]

----------------------------------------------------------------------------
(* Storage: file contents and the JSONL reader *)

\* A file is a sequence of tokens: J(v) is the text of the JSON value v, P(v) a
\* proper prefix of that text (a torn write), NL a line feed, WS a white space
\* character other than the line feed.
J(m) == [k |-> "J", m |-> m]
P(m) == [k |-> "P", m |-> m]
NL == [k |-> "NL"]
WS == [k |-> "WS"]

\* JSON.stringify leaves out the properties of an object whose value is
\* undefined; of the values of the model only is_error can be undefined.
DropUndefined(block) ==
    [f \in {g \in DOMAIN block : ~(g = "is_error" /\ block[g] = Undefined)} |-> block[f]]

\* The JSON value JSON.stringify writes for a message or a metadata document,
\* which is the value JSON.parse gives back
JsonValue(data) ==
    IF "content" \in DOMAIN data /\ ~data.content.str
    THEN [data EXCEPT !.content.blocks =
              [i \in DOMAIN data.content.blocks |-> DropUndefined(data.content.blocks[i])]]
    ELSE data

JsonValues(entries) == [i \in DOMAIN entries |-> JsonValue(entries[i])]

\* JSON.stringify(entry)
JsonStringify(data) == J(JsonValue(data))

\* content.split("\n"): the lines between the line feeds; "a\nb\n" gives a, b and
\* an empty last line.
RECURSIVE SplitLines(_, _, _)
SplitLines(content, i, line) ==
    IF i > Len(content) THEN <<line>>
    ELSE IF content[i] = NL THEN <<line>> \o SplitLines(content, i + 1, <<>>)
    ELSE SplitLines(content, i + 1, Append(line, content[i]))

\* line.trim(): the line without its leading and trailing white space
RECURSIVE Trim(_)
Trim(line) ==
    IF line = <<>> THEN <<>>
    ELSE IF Head(line) = WS THEN Trim(Tail(line))
    ELSE IF line[Len(line)] = WS THEN Trim(SubSeq(line, 1, Len(line) - 1))
    ELSE line

\* JSON.parse of one trimmed line: only one whole JSON text parses.  A fragment,
\* a fragment followed by a JSON text and two JSON texts in a row do not.
JsonParses(line) == Len(line) = 1 /\ line[1].k = "J"

RECURSIVE LastNonEmptyIndex(_, _)
LastNonEmptyIndex(lines, i) ==
    IF i < 1 THEN 0
    ELSE IF Trim(lines[i]) # <<>> THEN i
    ELSE LastNonEmptyIndex(lines, i - 1)

\* The loop of parseJsonlContent from line i on: the entries, or the corruption
\* error thrown at the first line that fails to parse and is not the last
\* non-empty one.
\* A reader without tolerance for a torn last line: C1 must tell it from
\* IsTrailingLine.
NeverTrailingLine(i, lastNonEmptyIndex) == FALSE

\* A reader that skips every line that fails to parse: C20 must tell it from
\* IsTrailingLine.
AlwaysTrailingLine(i, lastNonEmptyIndex) == TRUE

\* if (i === lastNonEmptyIndex) continue: only the last non-empty line may be a
\* torn write
IsTrailingLine(i, lastNonEmptyIndex) == i = lastNonEmptyIndex

RECURSIVE ParseLines(_, _, _, _)
ParseLines(lines, i, lastNonEmptyIndex, entries) ==
    IF i > Len(lines) THEN [ok |-> TRUE, entries |-> entries]
    ELSE IF Trim(lines[i]) = <<>> THEN ParseLines(lines, i + 1, lastNonEmptyIndex, entries)
    ELSE IF JsonParses(Trim(lines[i]))
         THEN ParseLines(lines, i + 1, lastNonEmptyIndex,
                         Append(entries, Trim(lines[i])[1].m))
    ELSE IF IsTrailingLine(i, lastNonEmptyIndex) THEN ParseLines(lines, i + 1, lastNonEmptyIndex, entries)
    ELSE [ok |-> FALSE, error |-> "StorageCorruptionError"]

parseJsonlContent(content) ==
    LET lines == SplitLines(content, 1, <<>>)
    IN ParseLines(lines, 1, LastNonEmptyIndex(lines, Len(lines)), <<>>)

readJson(file) ==
    IF file = <<>> THEN [ok |-> FALSE, error |-> "StorageNotFoundError"]
    ELSE IF ~JsonParses(file) THEN [ok |-> FALSE, error |-> "StorageCorruptionError"]
    ELSE [ok |-> TRUE, value |-> file[1].m]

\* The content up to and including its last line feed
RECURSIVE TerminatedLines(_)
TerminatedLines(content) ==
    IF content = <<>> \/ content[Len(content)] = NL THEN content
    ELSE TerminatedLines(SubSeq(content, 1, Len(content) - 1))

\* A reader that takes a last line without its line feed as torn, whether it
\* parses or not: C21 must tell it from readAllJsonl.
readTerminatedJsonl(file) ==
    IF ~file.exists THEN [ok |-> FALSE, error |-> "StorageNotFoundError"]
    ELSE parseJsonlContent(TerminatedLines(file.content))

readAllJsonl(file) ==
    IF ~file.exists THEN [ok |-> FALSE, error |-> "StorageNotFoundError"]
    ELSE parseJsonlContent(file.content)

\* appendFileSync(path, JSON.stringify(entry) + "\n"): creates the file if absent
appendJsonl(file, entry) ==
    [exists |-> TRUE, content |-> file.content \o <<JsonStringify(entry), NL>>]

RECURSIVE JsonlContent(_)
JsonlContent(entries) ==
    IF entries = <<>> THEN <<>>
    ELSE <<JsonStringify(Head(entries)), NL>> \o JsonlContent(Tail(entries))

\* A write straight into the target: a process that dies inside writeFileSync
\* leaves the target cut short.  C22 must tell it from atomicWriteDying.
writeInPlaceDying(oldFile, newFile, tornFile, point) ==
    IF point = "writing" THEN tornFile ELSE newFile

\* The target of atomicWrite(fullPath, content) when the process dies at
\* `point`: inside writeFileSync(tempPath) ("writing"), between it and
\* renameSync ("written"), or after renameSync ("renamed").  Only the temp file,
\* whose name is fresh and which nothing reads, is ever cut short; rename puts
\* the whole new content in place in one step.
atomicWriteDying(oldFile, newFile, tornFile, point) ==
    IF point = "renamed" THEN newFile ELSE oldFile

\* atomicWrite of the joined lines: the target is replaced as a whole
writeJsonl(entries) == [exists |-> TRUE, content |-> JsonlContent(entries)]

\* atomicWrite of the document: the target is replaced as a whole
writeJson(data) == <<JsonStringify(data)>>

----------------------------------------------------------------------------
(* Conversation store.  A store value gathers the two files, the in-memory   *)
(* state and the clock, so that one synchronous stretch of code can apply    *)
(* several operations in a row.                                              *)

CurStore ==
    [metadataFile |-> metadataFile, transcriptFile |-> transcriptFile,
     isLoaded |-> isLoaded, loadedMetadata |-> loadedMetadata,
     loadedMessages |-> loadedMessages, now |-> now]

SetStore(st) ==
    /\ metadataFile' = st.metadataFile
    /\ transcriptFile' = st.transcriptFile
    /\ isLoaded' = st.isLoaded
    /\ loadedMetadata' = st.loadedMetadata
    /\ loadedMessages' = st.loadedMessages
    /\ now' = st.now

NoMetadata == [createdAt |-> 0, updatedAt |-> 0, compactionCount |-> 0, model |-> "null"]

\* load(): both reads, then the in-memory state; a read that throws leaves the
\* store as it was
load(st) ==
    LET metadata == readJson(st.metadataFile)
        messages == readAllJsonl(st.transcriptFile)
    IN IF ~metadata.ok THEN [ok |-> FALSE, error |-> metadata.error, store |-> st]
       ELSE IF ~messages.ok THEN [ok |-> FALSE, error |-> messages.error, store |-> st]
       ELSE [ok |-> TRUE,
             store |-> [st EXCEPT !.loadedMetadata = metadata.value,
                                  !.loadedMessages = messages.entries,
                                  !.isLoaded = TRUE]]

\* createConversationStore over the same directory: the files as they are,
\* nothing loaded
FreshStore(st) ==
    [st EXCEPT !.isLoaded = FALSE, !.loadedMetadata = NoMetadata, !.loadedMessages = <<>>]

\* initialize(model), on a directory without metadata.json
initialize(st, model) ==
    LET metadata == [createdAt |-> st.now, updatedAt |-> st.now,
                     compactionCount |-> 0, model |-> model]
    IN [st EXCEPT !.metadataFile = writeJson(metadata),
                  !.transcriptFile = writeJsonl(<<>>),
                  !.loadedMetadata = metadata,
                  !.loadedMessages = <<>>,
                  !.isLoaded = TRUE,
                  !.now = st.now + 1]

\* appendMessage(message), loaded: disk first, then memory, then the metadata
appendMessage(st, message) ==
    LET updatedMetadata == [st.loadedMetadata EXCEPT !.updatedAt = st.now]
    IN [st EXCEPT !.transcriptFile = appendJsonl(st.transcriptFile, message),
                  !.loadedMessages = Append(st.loadedMessages, message),
                  !.metadataFile = writeJson(updatedMetadata),
                  !.loadedMetadata = updatedMetadata,
                  !.now = st.now + 1]

\* A replaceTranscript that replaces the in-memory list and leaves the file as
\* it was: C18 must tell it from replaceTranscript.
replaceTranscriptUnwritten(st, messages) ==
    LET updatedMetadata == [st.loadedMetadata EXCEPT !.updatedAt = st.now]
    IN [st EXCEPT !.loadedMessages = messages,
                  !.metadataFile = writeJson(updatedMetadata),
                  !.loadedMetadata = updatedMetadata,
                  !.now = st.now + 1]

\* replaceTranscript(messages), loaded
replaceTranscript(st, messages) ==
    LET updatedMetadata == [st.loadedMetadata EXCEPT !.updatedAt = st.now]
    IN [st EXCEPT !.transcriptFile = writeJsonl(messages),
                  !.loadedMessages = messages,
                  !.metadataFile = writeJson(updatedMetadata),
                  !.loadedMetadata = updatedMetadata,
                  !.now = st.now + 1]

\* An updateMetadata that changes the in-memory metadata and writes nothing:
\* C17 must tell it from updateMetadata.
updateMetadataUnsaved(st, compactionCount) ==
    [st EXCEPT !.loadedMetadata = [st.loadedMetadata EXCEPT !.compactionCount = compactionCount,
                                                           !.updatedAt = st.now],
               !.now = st.now + 1]

\* updateMetadata({compactionCount}), loaded
updateMetadata(st, compactionCount) ==
    LET updatedMetadata == [st.loadedMetadata EXCEPT !.compactionCount = compactionCount,
                                                     !.updatedAt = st.now]
    IN [st EXCEPT !.metadataFile = writeJson(updatedMetadata),
                  !.loadedMetadata = updatedMetadata,
                  !.now = st.now + 1]

\* appendMessage(message) whose storage call `failing` throws StorageIOError:
\* the statements before that call have run, those after it have not
appendMessageFailing(st, message, failing) ==
    IF failing = "appendJsonl" THEN st
    ELSE [st EXCEPT !.transcriptFile = appendJsonl(st.transcriptFile, message),
                    !.loadedMessages = Append(st.loadedMessages, message),
                    !.now = st.now + 1]

\* replaceTranscript(messages) whose storage call `failing` throws
replaceTranscriptFailing(st, messages, failing) ==
    IF failing = "writeJsonl" THEN st
    ELSE [st EXCEPT !.transcriptFile = writeJsonl(messages),
                    !.loadedMessages = messages,
                    !.now = st.now + 1]

\* updateMetadata(updates) whose writeJson throws
updateMetadataFailing(st) == [st EXCEPT !.now = st.now + 1]

----------------------------------------------------------------------------
(* Compaction engine *)

MAX_TOOL_FAILURES == 8
MAX_FAILURE_CHARS == 240

\* Math.ceil(tokens * TOKEN_SAFETY_MARGIN), TOKEN_SAFETY_MARGIN = 1.2
WithSafetyMargin(tokens) == (6 * tokens + 4) \div 5

\* Math.floor(maxInputTokens * MAX_INPUT_RATIO), MAX_INPUT_RATIO = 0.75
EffectiveMax(maxInputTokens) == (3 * maxInputTokens) \div 4

\* canCompact rejecting an input that is exactly at the limit
canCompactBelow(messages, maxInputTokens) ==
    WithSafetyMargin(estimateMessagesTokens(messages)) < EffectiveMax(maxInputTokens)

canCompact(messages, maxInputTokens) ==
    ~(WithSafetyMargin(estimateMessagesTokens(messages)) > EffectiveMax(maxInputTokens))

\* All blocks of the messages with the given role that carry block content.
RECURSIVE BlocksOf(_, _)
BlocksOf(messages, role) ==
    IF messages = <<>> THEN <<>>
    ELSE LET m == Head(messages) IN
         (IF m.role = role /\ ~m.content.str THEN m.content.blocks ELSE <<>>)
             \o BlocksOf(Tail(messages), role)

\* A tool's name as a string: every tool name of the model has four characters.
ToolNameStr(name) == Atom(name, 4)

\* toolNameMap.get(id) || "tool": the last tool_use block with the id names it
RECURSIVE ToolNameOf(_, _)
ToolNameOf(blocks, id) ==
    IF blocks = <<>> THEN ToolNameStr("tool")
    ELSE LET b == blocks[Len(blocks)] IN
         IF b.type = "tool_use" /\ b.id = id THEN ToolNameStr(b.name)
         ELSE ToolNameOf(SubSeq(blocks, 1, Len(blocks) - 1), id)

\* The error text cut to MAX_FAILURE_CHARS, or the stand-in for an empty one.
ErrorSummary(text) ==
    IF StrLen(text) > MAX_FAILURE_CHARS THEN Atom("truncated...", MAX_FAILURE_CHARS)
    ELSE IF StrLen(text) = 0 THEN Atom("failed (no output)", 18)
    ELSE text

\* The second pass of extractToolFailures over the user messages' blocks.
RECURSIVE FailuresFrom(_, _, _)
FailuresFrom(userBlocks, assistantBlocks, seen) ==
    IF userBlocks = <<>> THEN <<>>
    ELSE LET b == Head(userBlocks) IN
         IF b.type # "tool_result" \/ ~IsError(b) \/ b.tool_use_id \in seen
         THEN FailuresFrom(Tail(userBlocks), assistantBlocks, seen)
         ELSE <<[toolCallId |-> b.tool_use_id,
                 toolName |-> ToolNameOf(assistantBlocks, b.tool_use_id),
                 errorSummary |-> ErrorSummary(b.content)]>>
              \o FailuresFrom(Tail(userBlocks), assistantBlocks, seen \cup {b.tool_use_id})

extractToolFailures(messages) ==
    FailuresFrom(BlocksOf(messages, "user"), BlocksOf(messages, "assistant"), {})

RECURSIVE FailureLines(_)
FailureLines(failures) ==
    IF failures = <<>> THEN <<>>
    ELSE Atom("- ", 2) \o Head(failures).toolName \o Atom(": ", 2)
         \o Head(failures).errorSummary
         \o (IF Len(failures) > 1 THEN Atom("\n", 1) ELSE <<>>)
         \o FailureLines(Tail(failures))

formatToolFailuresSection(failures) ==
    IF failures = <<>> THEN <<>>
    ELSE Atom("\n\n## Tool Failures\n", 19)
         \o FailureLines(SubSeq(failures, 1,
                IF Len(failures) > MAX_TOOL_FAILURES THEN MAX_TOOL_FAILURES ELSE Len(failures)))
         \o (IF Len(failures) > MAX_TOOL_FAILURES
             THEN Atom("\n- ...and N more", 16) ELSE <<>>)

\* compact()'s summary once the summarizer has returned `text`: the metadata
\* sections follow it (the file lists are empty: the loop passes empty sets).
CompactSummary(messages, text) == text \o formatToolFailuresSection(extractToolFailures(messages))

\* compact() on an empty input: config.previousSummary || "No prior ..."
EmptyInputSummary(prevSummary) ==
    IF prevSummary # <<>> /\ prevSummary[1] # <<>> THEN prevSummary[1] ELSE NO_HISTORY_SUMMARY

----------------------------------------------------------------------------
(* Turn loop: the synchronous stretches of processTurn between two awaits *)

Error(name) == [kind |-> "error", name |-> name]

\* contextWindow - systemPromptTokens - maxTokens
\* const tokenBudget = contextWindow - systemPromptTokens - maxTokens, over the
\* system prompt built from the identity files as they are now
tokenBudget == contextWindow - estimateStringTokens(env.systemPromptLen) - maxTokens

\* A budget check that lets a budget of zero through: C24 must tell it from
\* BudgetExhausted.
BudgetExhaustedBelowZero(budget) == budget < 0

\* if (tokenBudget <= 0) throw
BudgetExhausted(budget) == budget <= 0

Min(a, b) == IF a < b THEN a ELSE b

\* Math.min(COMPACTION_RESERVE_TOKENS, Math.floor(tokenBudget * 0.5))
Reserve(budget) == Min(COMPACTION_RESERVE_TOKENS, budget \div 2)

\* A keep budget above the loop's budget: C35 must tell it from KeepBudget.
KeepBudgetWide(budget) == budget + Reserve(budget)

\* const keepBudget = tokenBudget - reserve
KeepBudget(budget) == budget - Reserve(budget)

\* A loop without a call limit: C36 must tell it from LoopCondition.
LoopConditionAlways(mcc) == mcc >= 0

\* An off-by-one loop condition: C5 must tell it from LoopCondition.
LoopConditionInclusive(mcc) == mcc <= MAX_MODEL_CALLS_PER_TURN

\* while (modelCallCount < MAX_MODEL_CALLS_PER_TURN)
LoopCondition(mcc) == mcc < MAX_MODEL_CALLS_PER_TURN

\* An off-by-one attempt check: C6 must tell it from AttemptsExhausted.
AttemptsExhaustedStrict(ca) == ca > MAX_COMPACTION_ATTEMPTS

\* if (compactionAttempts >= MAX_COMPACTION_ATTEMPTS) throw
AttemptsExhausted(ca) == ca >= MAX_COMPACTION_ATTEMPTS

\* A detection that hands on the summary message's whole content, prefix
\* included: C32 must tell it from DetectPreviousSummary.
DetectPreviousSummaryUnsliced(toCompact) ==
    IF toCompact # <<>> /\ toCompact[1].role = "user" /\ toCompact[1].content.str
       /\ StartsWith(toCompact[1].content.text, SUMMARY_PREFIX)
    THEN <<toCompact[1].content.text>>
    ELSE <<>>

\* The previous summary triggerCompaction detects at the head of the drop-set:
\* <<>> for undefined, else <<the text after the prefix>>.
DetectPreviousSummary(toCompact) ==
    IF toCompact # <<>> /\ toCompact[1].role = "user" /\ toCompact[1].content.str
       /\ StartsWith(toCompact[1].content.text, SUMMARY_PREFIX)
    THEN <<SliceAfter(toCompact[1].content.text, SUMMARY_PREFIX)>>
    ELSE <<>>

\* What a stretch that ends the turn leaves behind.
Ended(result, ovf) ==
    [pc |-> "idle", outcome |-> result, overflow |-> ovf, callMessages |-> <<>>,
     keptMessages |-> <<>>, messagesToCompact |-> <<>>, previousSummary |-> <<>>]

\* triggerCompaction up to its first await: the kept messages, the drop-set and
\* compact()'s input check.  compact() awaits the summarizer, or nothing when its
\* input is empty.
triggerCompaction(allMessages, budget, ovf) ==
    LET kept == selectMessages(allMessages, KeepBudget(budget)).selected
        dropCount == Len(allMessages) - Len(kept)
        toCompact == SubSeq(allMessages, 1, dropCount)
        prev == DetectPreviousSummary(toCompact)
        waiting(at) == [pc |-> at, outcome |-> [kind |-> "none"], overflow |-> ovf,
                        callMessages |-> toCompact, keptMessages |-> kept,
                        messagesToCompact |-> toCompact, previousSummary |-> prev]
    IN IF toCompact = <<>> THEN waiting("awaitCompact")
       ELSE IF ~canCompact(toCompact, contextWindow) THEN Ended(Error("InputTooLargeError"), ovf)
       ELSE waiting("awaitSummarizer")

\* One pass of the while loop from its top to the next await or to the throw.
LoopTop(allMessages, mcc, ca) ==
    IF ~LoopCondition(mcc) THEN Ended(Error("TurnBudgetExhausted"), NoOverflow)
    ELSE IF BudgetExhausted(tokenBudget) THEN Ended(Error("TokenBudgetExhausted"), NoOverflow)
    ELSE LET sel == selectMessages(allMessages, tokenBudget) IN
         IF ~sel.overflow.isNull
         THEN IF AttemptsExhausted(ca)
              THEN Ended([kind |-> "error", name |-> "CompactionExhausted",
                          droppedCount |-> sel.overflow.droppedCount,
                          estimatedDroppedTokens |-> sel.overflow.estimatedDroppedTokens],
                         sel.overflow)
              ELSE triggerCompaction(allMessages, tokenBudget, sel.overflow)
         ELSE [pc |-> "awaitModel", outcome |-> [kind |-> "none"], overflow |-> NoOverflow,
               callMessages |-> sel.selected, keptMessages |-> <<>>,
               messagesToCompact |-> <<>>, previousSummary |-> <<>>]

\* History: a model call issued by the stretch that just ran.
NoteCall(h, at) ==
    IF at = "awaitModel"
    THEN [h EXCEPT !.calls = @ + 1, !.convCalls = @ + 1, !.lastStop = "pending"]
    ELSE IF at = "awaitSummarizer"
    THEN [h EXCEPT !.calls = @ + 1, !.sumCalls = @ + 1]
    ELSE h

\* The store is st; go round the loop.
Resume(st, mcc, ca, h) ==
    LET lt == LoopTop(st.loadedMessages, mcc, ca) IN
    /\ SetStore(st)
    /\ modelCallCount' = mcc
    /\ compactionAttempts' = ca
    /\ pc' = lt.pc
    /\ outcome' = lt.outcome
    /\ overflow' = lt.overflow
    /\ callMessages' = lt.callMessages
    /\ keptMessages' = lt.keptMessages
    /\ messagesToCompact' = lt.messagesToCompact
    /\ previousSummary' = lt.previousSummary
    /\ hist' = NoteCall(h, lt.pc)

NewHist == [calls |-> 0, convCalls |-> 0, sumCalls |-> 0, rewrites |-> 0,
            lastStop |-> "none", lastDrop |-> 0, last |-> "start", before |-> <<>>]

\* A processTurn that calls the model without persisting the input first:
\* C2 must tell it from AppendUserMessage.
SkipUserMessage(st, u) == st

\* const userMessage = {role: "user", content: userInput}; appendMessage(userMessage)
AppendUserMessage(st, u) == appendMessage(st, StringMessage("user", u))

\* The environment takes a choice that costs `cost` deviations.
Spend(cost) ==
    /\ env.deviations + cost <= MaxDeviations
    /\ env' = [env EXCEPT !.deviations = @ + cost]

Cost(choice, default) == IF choice = default THEN 0 ELSE 1

DefaultInput == Atom("Hi", 2)

\* processTurn(userInput) up to its first await; `looping` tells whether the
\* model of this turn asks for the same tool on every call, and e is the
\* environment the call is made in.
processTurn(u, looping, e) ==
    /\ pc = "idle"
    /\ turnNo < MaxTurns
    /\ e.deviations + Cost(u, DefaultInput) + Cost(looping, FALSE) <= MaxDeviations
    /\ env' = [e EXCEPT !.looping = looping,
                        !.deviations = @ + Cost(u, DefaultInput) + Cost(looping, FALSE)]
    /\ turnNo' = turnNo + 1
    /\ userInput' = u
    /\ response' = <<>>
    /\ toolIdx' = 0
    /\ results' = <<>>
    /\ Resume(AppendUserMessage(CurStore, u), 0, 0,
              [NewHist EXCEPT !.before = loadedMessages])

\* a caller calls processTurn(u)
StartTurn(u, looping) == processTurn(u, looping, env)

\* A reply that is the first text block alone: C16 must tell it from
\* extractTextResponse.
extractFirstText(content) ==
    LET texts == SelectSeq(content, LAMBDA b : b.type = "text") IN
    IF texts = <<>> THEN <<>> ELSE texts[1].text

\* textParts.join("\n") over the text blocks of the content
RECURSIVE extractTextResponse(_)
extractTextResponse(content) ==
    LET texts == SelectSeq(content, LAMBDA b : b.type = "text") IN
    IF texts = <<>> THEN <<>>
    ELSE IF Len(texts) = 1 THEN texts[1].text
    ELSE texts[1].text \o Atom("\n", 1) \o extractTextResponse(Tail(texts))

ToolUseBlocks(content) == SelectSeq(content, LAMBDA b : b.type = "tool_use")

\* findTool(tools, name) === undefined
ToolMissing(name) == name \notin tools

\* A dispatch that starts the handler of the last block while the blocks before
\* it have no result yet: C31 must tell it from dispatchToolCalls.
dispatchToolCallsAhead(blocks, i, res) ==
    IF i > Len(blocks) THEN [i |-> i, results |-> res]
    ELSE [i |-> Len(blocks), results |-> res]

\* dispatchToolCalls' loop from block i on, up to the next handler to await:
\* a tool that is not found gets its error result at once.
RECURSIVE dispatchToolCalls(_, _, _)
dispatchToolCalls(blocks, i, res) ==
    IF i > Len(blocks) THEN [i |-> i, results |-> res]
    ELSE IF ToolMissing(blocks[i].name)
    THEN dispatchToolCalls(blocks, i + 1,
             Append(res, ToolResultBlock(blocks[i].id,
                             Atom("Tool not found: ", 16) \o ToolNameStr(blocks[i].name), "true")))
    ELSE [i |-> i, results |-> res]

\* String(error) of a thrown value that is not an Error: a string converts to
\* itself, an object without a primitive conversion (Object.create(null), or one
\* whose toString throws) makes String throw a TypeError.
Stringifies(thrown) == thrown.kind # "unprintable"

\* error instanceof Error ? error.message : String(error), where it has a value
ThrownText(thrown) == thrown.message

\* executeTool: the handler's result, or the error result built in the catch
\* block; the catch block itself throws when the thrown value has no string form.
executeTool(handled) ==
    IF ~handled.threw THEN [returned |-> TRUE, result |-> handled.value]
    ELSE IF Stringifies(handled.thrown)
    THEN [returned |-> TRUE,
          result |-> [ok |-> FALSE, error |-> ThrownText(handled.thrown)]]
    ELSE [returned |-> FALSE, name |-> "TypeError"]

\* A result block that does not carry the id of its tool_use block: C12 must
\* tell it from ResultBlock.
ResultBlockUnkeyed(toolUse, result) ==
    ToolResultBlock(<<0, 0, 0>>, IF result.ok THEN result.content ELSE result.error,
                    IF result.ok THEN Undefined ELSE "true")

\* The tool_result block dispatchToolCalls pushes for an executed tool: is_error
\* is FALSE where the code leaves it undefined.
ResultBlock(toolUse, result) ==
    ToolResultBlock(toolUse.id, IF result.ok THEN result.content ELSE result.error,
                    IF result.ok THEN Undefined ELSE "true")

\* A bundle sent under the wrong role: C11 must tell it from ToolResultMessage.
ToolResultMessageAsAssistant(toolResultBlocks) == BlockMessage("assistant", toolResultBlocks)

\* const toolResultMessage = {role: "user", content: toolResultBlocks}
ToolResultMessage(toolResultBlocks) == BlockMessage("user", toolResultBlocks)

\* A loop that goes on without persisting the bundle: C14 must tell it from
\* AppendToolResults.
SkipToolResults(st, toolResultBlocks) == st

\* conversationStore.appendMessage(toolResultMessage)
AppendToolResults(st, toolResultBlocks) ==
    appendMessage(st, ToolResultMessage(toolResultBlocks))

\* The dispatch goes on from block i with the results res: await the next
\* handler, or append the bundled results and go round the loop.
ContinueDispatch(st, content, i, res, mcc, h) ==
    LET d == dispatchToolCalls(ToolUseBlocks(content), i, res) IN
    IF d.i > Len(ToolUseBlocks(content))
    THEN /\ response' = <<>>
         /\ toolIdx' = 0
         /\ results' = <<>>
         /\ Resume(AppendToolResults(st, d.results), mcc, compactionAttempts, h)
    ELSE /\ response' = content
         /\ toolIdx' = d.i
         /\ results' = d.results
         /\ SetStore(st)
         /\ modelCallCount' = mcc
         /\ pc' = "awaitTool"
         /\ hist' = h
         /\ UNCHANGED <<compactionAttempts, callMessages, keptMessages, messagesToCompact,
                        previousSummary, overflow, outcome>>

\* The responses the model may give to call number `call` of turn `turn`.
ToolUseId(turn, call, k) == <<turn, call, k>>

TextResponse == [content |-> <<TextBlock(Atom("ok", 2))>>, stop_reason |-> "end_turn"]

LoopingResponse(turn, call) ==
    [content |-> <<ToolUseBlock(ToolUseId(turn, call, 1), "calc", 2)>>,
     stop_reason |-> "tool_use"]

DefaultResponse(turn, call) == IF env.looping THEN LoopingResponse(turn, call) ELSE TextResponse

Responses(turn, call) ==
    IF env.looping THEN {LoopingResponse(turn, call)}
    ELSE { TextResponse,
           LoopingResponse(turn, call),
           [content |-> <<TextBlock(Atom("let me check", 12)),
                          ToolUseBlock(ToolUseId(turn, call, 1), "calc", 2),
                          ToolUseBlock(ToolUseId(turn, call, 2), "nope", 2)>>,
            stop_reason |-> "tool_use"],
           [content |-> <<ToolUseBlock(ToolUseId(turn, call, 1), "calc", 2)>>,
            stop_reason |-> "max_tokens"],
           [content |-> <<TextBlock(Atom("first", 5)), TextBlock(Atom("second", 6))>>,
            stop_reason |-> "end_turn"] }

\* An assistant message that keeps the text blocks only: C13 must tell it from
\* AssistantMessage.
AssistantTextOnly(content) ==
    BlockMessage("assistant", SelectSeq(content, LAMBDA b : b.type = "text"))

\* const assistantMessage = {role: "assistant", content: response.content}
AssistantMessage(content) == BlockMessage("assistant", content)

\* callModel resolves with response r
ModelReturns(r) ==
    /\ pc = "awaitModel"
    /\ Spend(Cost(r, DefaultResponse(turnNo, modelCallCount + 1)))
    /\ LET mcc == modelCallCount + 1
           st == appendMessage(CurStore, AssistantMessage(r.content))
           h == [hist EXCEPT !.lastStop = r.stop_reason, !.last = "model_returned"]
       IN IF r.stop_reason # "tool_use"
          THEN /\ SetStore(st)
               /\ modelCallCount' = mcc
               /\ pc' = "idle"
               /\ outcome' = [kind |-> "ok", text |-> extractTextResponse(r.content)]
               /\ hist' = h
               /\ callMessages' = <<>>
               /\ UNCHANGED <<compactionAttempts, response, toolIdx, results, keptMessages,
                              messagesToCompact, previousSummary, overflow>>
          ELSE ContinueDispatch(st, r.content, 1, <<>>, mcc, h)
    /\ UNCHANGED <<userInput, turnNo>>

\* callModel rejects
ModelThrows ==
    /\ pc = "awaitModel"
    /\ ~env.looping
    /\ Spend(1)
    /\ pc' = "idle"
    /\ outcome' = Error("ModelCallError")
    /\ callMessages' = <<>>
    /\ hist' = [hist EXCEPT !.last = "model_threw"]
    /\ UNCHANGED <<storeVars, userInput, modelCallCount, compactionAttempts, response, toolIdx,
                   results, keptMessages, messagesToCompact, previousSummary, overflow, turnNo>>

\* The handler of tool_use block toolIdx has settled.
ToolSettled(handled) ==
    LET blocks == ToolUseBlocks(response)
        run == executeTool(handled)
        block == ResultBlock(blocks[toolIdx], run.result)
    IN /\ IF run.returned
          THEN ContinueDispatch(CurStore, response, toolIdx + 1, Append(results, block),
                                modelCallCount, [hist EXCEPT !.last = "tool_settled"])
          ELSE \* nothing between executeTool and processTurn's caller catches
               /\ pc' = "idle"
               /\ outcome' = Error(run.name)
               /\ response' = <<>>
               /\ toolIdx' = 0
               /\ results' = <<>>
               /\ hist' = [hist EXCEPT !.last = "tool_threw_through"]
               /\ UNCHANGED <<storeVars, modelCallCount, compactionAttempts, callMessages,
                              keptMessages, messagesToCompact, previousSummary, overflow>>
       /\ UNCHANGED <<userInput, turnNo>>

ToolReturns(value) ==
    /\ pc = "awaitTool"
    /\ value.ok \/ ~env.looping
    /\ Spend(IF value.ok THEN 0 ELSE 1)
    /\ ToolSettled([threw |-> FALSE, value |-> value])

ToolThrows(thrown) ==
    /\ pc = "awaitTool"
    /\ ~env.looping
    /\ Spend(1)
    /\ ToolSettled([threw |-> TRUE, thrown |-> thrown])

ShortSummary == <<TextBlock(Atom("I remember", 10))>>
LongSummary == <<TextBlock(Atom("long memory", 200))>>

\* A summary message without the prefix: C8 must tell it from SummaryMessage.
BareSummaryMessage(summary) == StringMessage("user", summary)

\* const summaryMessage = {role: "user", content: SUMMARY_PREFIX + result.summary}
SummaryMessage(summary) == StringMessage("user", SUMMARY_PREFIX \o summary)

\* A rewrite that keeps every message behind the summary: C7 must tell it from
\* NewTranscript.
KeepEverything(summaryMessage, kept, allMessages) == <<summaryMessage>> \o allMessages

\* [summaryMessage, ...keptMessages]
NewTranscript(summaryMessage, kept, allMessages) == <<summaryMessage>> \o kept

\* getMetadata().compactionCount + 1
NextCompactionCount(metadata) == metadata.compactionCount + 1

\* triggerCompaction after compact() has resolved with `summary`
FinishCompaction(summary, event) ==
    LET st1 == replaceTranscript(CurStore,
                   NewTranscript(SummaryMessage(summary), keptMessages, loadedMessages))
        st2 == updateMetadata(st1, NextCompactionCount(st1.loadedMetadata))
    IN /\ Resume(st2, modelCallCount, compactionAttempts + 1,
                 [hist EXCEPT !.rewrites = @ + 1, !.lastDrop = Len(messagesToCompact),
                              !.last = event])
       /\ UNCHANGED <<userInput, response, toolIdx, results, turnNo>>

\* The summarizer's callModel resolves with `content` (or compact() had no input
\* and called nothing).
SummarizerReturns(content) ==
    /\ pc \in {"awaitSummarizer", "awaitCompact"}
    /\ content = ShortSummary \/ ~env.looping
    /\ Spend(Cost(content, ShortSummary))
    /\ FinishCompaction(IF pc = "awaitCompact" THEN EmptyInputSummary(previousSummary)
                        ELSE CompactSummary(messagesToCompact, extractTextResponse(content)),
                        "summarizer_returned")

\* The summarizer's callModel rejects: compact() catches and substitutes
\* FALLBACK_SUMMARY.
SummarizerThrows ==
    /\ pc = "awaitSummarizer"
    /\ ~env.looping
    /\ Spend(1)
    /\ FinishCompaction(CompactSummary(messagesToCompact, FALLBACK_SUMMARY), "summarizer_threw")

----------------------------------------------------------------------------
(* The inputs of the model *)

UserInputs == {DefaultInput, Atom("huge input", 204), Atom("giant input", 304)}
SummaryContents == {ShortSummary, LongSummary}
ToolValues == {[ok |-> TRUE, content |-> Atom("42", 2)],
               [ok |-> FALSE, error |-> Atom("bad input", 9)]}
\* What a handler may throw: an Error, a string, a value String() cannot convert
ThrownValues ==
    { [kind |-> "Error", message |-> Atom("disk full", 9)],
      [kind |-> "string", message |-> Atom("string error", 12)],
      [kind |-> "unprintable", message |-> <<>>] }

----------------------------------------------------------------------------
(* The turn loop on an initialized store *)

EmptyDir ==
    [metadataFile |-> <<>>, transcriptFile |-> [exists |-> FALSE, content |-> <<>>],
     isLoaded |-> FALSE, loadedMetadata |-> NoMetadata, loadedMessages |-> <<>>, now |-> 1]

StoreIs(st) ==
    /\ metadataFile = st.metadataFile
    /\ transcriptFile = st.transcriptFile
    /\ isLoaded = st.isLoaded
    /\ loadedMetadata = st.loadedMetadata
    /\ loadedMessages = st.loadedMessages
    /\ now = st.now

TurnIdle ==
    /\ userInput = <<>>
    /\ modelCallCount = 0
    /\ compactionAttempts = 0
    /\ callMessages = <<>>
    /\ response = <<>>
    /\ toolIdx = 0
    /\ results = <<>>
    /\ keptMessages = <<>>
    /\ messagesToCompact = <<>>
    /\ previousSummary = <<>>
    /\ overflow = NoOverflow
    /\ outcome = [kind |-> "none"]
    /\ turnNo = 0

DefaultEnv == [looping |-> FALSE, deviations |-> 0, systemPromptLen |-> systemPromptLen]

LocalsIdle == TurnIdle /\ env = DefaultEnv

Init == StoreIs(initialize(EmptyDir, "m1")) /\ LocalsIdle /\ pc = "idle" /\ hist = NewHist

Next ==
    \/ \E u \in UserInputs, looping \in BOOLEAN : StartTurn(u, looping)
    \/ \E r \in Responses(turnNo, modelCallCount + 1) : ModelReturns(r)
    \/ ModelThrows
    \/ \E v \in ToolValues : ToolReturns(v)
    \/ \E t \in ThrownValues : ToolThrows(t)
    \/ \E c \in SummaryContents : SummarizerReturns(c)
    \/ SummarizerThrows

Spec == Init /\ [][Next]_vars

----------------------------------------------------------------------------
(* The store under process crashes: a caller appends messages, the process  *)
(* may die at any point of appendMessage, and the next process loads the    *)
(* directory.  pc is "idle" between two calls, "appended" inside            *)
(* appendMessage between appendJsonl and writeJson, "stopped" when no       *)
(* process runs and "failed" when load() has thrown.                        *)

\* appendMessage calls per run
MaxAppends == 3
\* process deaths per run
MaxCrashes == 2

Messages ==
    {StringMessage("user", Atom("Hi", 2)), BlockMessage("assistant", <<TextBlock(Atom("ok", 2))>>)}

\* What a dying appendFileSync(path, JSON.stringify(entry) + "\n") has written
Cuts == {"nothing", "partial", "json", "line"}

Torn(entry, cut) ==
    CASE cut = "nothing" -> <<>>
      [] cut = "partial" -> <<P(JsonValue(entry))>>
      [] cut = "json" -> <<JsonStringify(entry)>>
      [] cut = "line" -> <<JsonStringify(entry), NL>>

\* The transcript is made of whole lines only, those of `entries`: what
\* writeJsonl and completed appendJsonl calls leave
WholeLines(file, entries) == file.exists /\ file.content = JsonlContent(entries)

crashFrame ==
    <<userInput, modelCallCount, compactionAttempts, callMessages, response, toolIdx, results,
      keptMessages, messagesToCompact, previousSummary, overflow, outcome, env, turnNo>>

\* hist of this specification: the messages the running process found at its
\* start (base), those passed to appendMessage since (passed), how many of
\* these calls returned, whether the process found a transcript made of whole
\* lines only (clean), the counts of appends and deaths of the run, and the
\* messages whose appendMessage has returned in any process of the run (acked).
NewCrashHist ==
    [base |-> <<>>, passed |-> <<>>, returned |-> 0, clean |-> TRUE, appends |-> 0,
     crashes |-> 0, acked |-> <<>>]

InitCrash ==
    StoreIs(initialize(EmptyDir, "m1")) /\ LocalsIdle /\ pc = "idle" /\ hist = NewCrashHist

\* appendMessage(message) up to the end of appendJsonl and the push
AppendWritten(message) ==
    /\ pc = "idle"
    /\ hist.appends < MaxAppends
    /\ transcriptFile' = appendJsonl(transcriptFile, message)
    /\ loadedMessages' = Append(loadedMessages, message)
    /\ pc' = "appended"
    /\ hist' = [hist EXCEPT !.passed = Append(@, message), !.appends = @ + 1]
    /\ UNCHANGED <<metadataFile, isLoaded, loadedMetadata, now, crashFrame>>

\* the rest of appendMessage: the metadata write, and the return
AppendReturns ==
    /\ pc = "appended"
    /\ LET updatedMetadata == [loadedMetadata EXCEPT !.updatedAt = now] IN
       /\ metadataFile' = writeJson(updatedMetadata)
       /\ loadedMetadata' = updatedMetadata
    /\ now' = now + 1
    /\ pc' = "idle"
    /\ hist' = [hist EXCEPT !.returned = @ + 1,
                            !.acked = Append(@, hist.passed[Len(hist.passed)])]
    /\ UNCHANGED <<transcriptFile, isLoaded, loadedMessages, crashFrame>>

\* The process is gone: nothing is loaded any more.
ProcessDies ==
    /\ isLoaded' = FALSE
    /\ loadedMetadata' = NoMetadata
    /\ loadedMessages' = <<>>
    /\ pc' = "stopped"

\* The process dies inside appendFileSync
CrashInAppend(message, cut) ==
    /\ pc = "idle"
    /\ hist.appends < MaxAppends
    /\ hist.crashes < MaxCrashes
    /\ transcriptFile' = [exists |-> TRUE, content |-> transcriptFile.content \o Torn(message, cut)]
    /\ ProcessDies
    /\ hist' = [hist EXCEPT !.passed = Append(@, message), !.appends = @ + 1, !.crashes = @ + 1]
    /\ UNCHANGED <<metadataFile, now, crashFrame>>

\* The process dies between two calls, or inside appendMessage between the
\* append and the metadata write or before writeJson's rename
Crash ==
    /\ pc \in {"idle", "appended"}
    /\ hist.crashes < MaxCrashes
    /\ ProcessDies
    /\ hist' = [hist EXCEPT !.crashes = @ + 1]
    /\ UNCHANGED <<metadataFile, transcriptFile, now, crashFrame>>

\* The process dies inside writeJson after the rename
CrashAfterRename ==
    /\ pc = "appended"
    /\ hist.crashes < MaxCrashes
    /\ metadataFile' = writeJson([loadedMetadata EXCEPT !.updatedAt = now])
    /\ now' = now + 1
    /\ ProcessDies
    /\ hist' = [hist EXCEPT !.crashes = @ + 1]
    /\ UNCHANGED <<transcriptFile, crashFrame>>

\* A new process creates a store over the directory and calls load()
Restart ==
    /\ pc = "stopped"
    /\ LET loaded == load(FreshStore(CurStore)) IN
       /\ SetStore(loaded.store)
       /\ pc' = IF loaded.ok THEN "idle" ELSE "failed"
       /\ hist' = [hist EXCEPT !.base = loaded.store.loadedMessages, !.passed = <<>>,
                               !.returned = 0,
                               !.clean = WholeLines(transcriptFile,
                                                    loaded.store.loadedMessages)]
    /\ UNCHANGED crashFrame

NextCrash ==
    \/ \E m \in Messages : AppendWritten(m)
    \/ AppendReturns
    \/ \E m \in Messages, cut \in Cuts : CrashInAppend(m, cut)
    \/ Crash
    \/ CrashAfterRename
    \/ Restart

SpecCrash == InitCrash /\ [][NextCrash]_vars

IsPrefix(s, t) == Len(s) <= Len(t) /\ s = SubSeq(t, 1, Len(s))

\* C1: when the process has died during a run of appendMessage calls on a store
\* whose transcript was made of whole lines when the process started (as after
\* initialize, or after a death that tore no line), load() on a
\* fresh store succeeds and returns a prefix of the process's messages (those it
\* loaded, then those passed to appendMessage) that holds every message whose
\* appendMessage returned: only the one in progress may be missing.
C1_CrashLeavesPrefix ==
    (pc = "stopped" /\ hist.clean) =>
        LET loaded == load(FreshStore(CurStore)) IN
        /\ loaded.ok
        /\ IsPrefix(loaded.store.loadedMessages, hist.base \o hist.passed)
        /\ Len(loaded.store.loadedMessages) >= Len(hist.base) + hist.returned
        /\ Len(loaded.store.loadedMessages) >= Len(hist.base) + Len(hist.passed) - 1

C1_Witness ==
    /\ pc = "stopped"
    /\ hist.clean
    /\ hist.returned = 2
    /\ Len(hist.passed) = 3
    /\ transcriptFile.content[Len(transcriptFile.content)] = P(hist.passed[3])
    /\ load(FreshStore(CurStore)).store.loadedMessages = SubSeq(hist.passed, 1, 2)

----------------------------------------------------------------------------
(* The store called directly: a caller makes up to MaxOps calls of the      *)
(* store's methods on an empty directory; up to MaxStorageErrors of them    *)
(* meet a storage call that throws StorageIOError.  processTurn reaches the *)
(* store through appendMessage, replaceTranscript and updateMetadata only,  *)
(* and StoreMessages holds every shape of message it passes to them.        *)

MaxOps == 5
MaxStorageErrors == 1

StoreMessages ==
    { StringMessage("user", Atom("Hi", 2)),
      BlockMessage("user", <<ToolResultBlock(<<1, 1, 1>>, Atom("42", 2), Undefined),
                             ToolResultBlock(<<1, 1, 2>>, Atom("bad input", 9), "true")>>) }

StoreTranscripts ==
    { <<>>,
      << StringMessage("user", SUMMARY_PREFIX \o Atom("I remember", 10)),
         BlockMessage("assistant", <<TextBlock(Atom("let me check", 12)),
                                     ToolUseBlock(<<1, 1, 1>>, "calc", 2)>>),
         BlockMessage("user", <<ToolResultBlock(<<1, 1, 1>>, Atom("42", 2), Undefined)>>) >> }

\* hist of this specification: the last call, how it ended, the counts of
\* calls and of storage errors so far, and the number of bytes cut off the end of
\* transcript.jsonl from outside (0 while the file is as the store wrote it)
NewStoreHist == [op |-> "none", error |-> "none", ops |-> 0, storageErrors |-> 0, cut |-> 0]

InitStore == StoreIs(EmptyDir) /\ LocalsIdle /\ pc = "idle" /\ hist = NewStoreHist

\* A call of method op ends with the store st and with `error` thrown ("none"
\* when it returns)
Called(op, st, error) ==
    /\ hist.ops < MaxOps
    /\ error = "StorageIOError" => hist.storageErrors < MaxStorageErrors
    /\ SetStore(st)
    /\ hist' = [op |-> op, error |-> error, ops |-> hist.ops + 1,
                storageErrors |-> hist.storageErrors + (IF error = "StorageIOError" THEN 1 ELSE 0),
                cut |-> hist.cut]
    /\ UNCHANGED <<turnVars, env, turnNo>>

Initialize(model) ==
    IF readJson(metadataFile).ok
    THEN Called("initialize", CurStore, "ConversationAlreadyExistsError")
    ELSE Called("initialize", initialize(CurStore, model), "none")

Load ==
    LET loaded == load(CurStore) IN
    Called("load", loaded.store, IF loaded.ok THEN "none" ELSE loaded.error)

AppendMessage(message) ==
    IF ~isLoaded THEN Called("appendMessage", CurStore, "ConversationNotLoadedError")
    ELSE Called("appendMessage", appendMessage(CurStore, message), "none")

AppendMessageFails(message, failing) ==
    /\ isLoaded
    /\ Called("appendMessage", appendMessageFailing(CurStore, message, failing),
              "StorageIOError")

ReplaceTranscript(messages) ==
    IF ~isLoaded THEN Called("replaceTranscript", CurStore, "ConversationNotLoadedError")
    ELSE Called("replaceTranscript", replaceTranscript(CurStore, messages), "none")

ReplaceTranscriptFails(messages, failing) ==
    /\ isLoaded
    /\ Called("replaceTranscript", replaceTranscriptFailing(CurStore, messages, failing),
              "StorageIOError")

UpdateMetadata(compactionCount) ==
    IF ~isLoaded THEN Called("updateMetadata", CurStore, "ConversationNotLoadedError")
    ELSE Called("updateMetadata", updateMetadata(CurStore, compactionCount), "none")

UpdateMetadataFails ==
    /\ isLoaded
    /\ Called("updateMetadata", updateMetadataFailing(CurStore), "StorageIOError")

\* transcript.jsonl, made of whole lines, loses its last `bytes` bytes: the
\* last line feed alone, or the line feed and the end of the last JSON text
\* (as a write cut short leaves it: '{"n":1}\n{"n":2}\n{"n":3').
Truncate(bytes) ==
    LET content == transcriptFile.content
        n == Len(content)
    IN /\ hist.cut = 0
       /\ transcriptFile.exists
       /\ n >= 2
       /\ content[n] = NL
       /\ content[n - 1].k = "J"
       /\ transcriptFile' =
              [exists |-> TRUE,
               content |-> IF bytes = 1 THEN SubSeq(content, 1, n - 1)
                           ELSE Append(SubSeq(content, 1, n - 2), P(content[n - 1].m))]
       /\ hist' = [hist EXCEPT !.op = "truncate", !.error = "none", !.cut = bytes]
       /\ UNCHANGED <<metadataFile, isLoaded, loadedMetadata, loadedMessages, now,
                      turnVars, env, turnNo>>

NextStore ==
    \/ Initialize("m1")
    \/ Load
    \/ \E m \in StoreMessages : AppendMessage(m)
    \/ \E m \in StoreMessages, failing \in {"appendJsonl", "writeJson"} :
           AppendMessageFails(m, failing)
    \/ \E xs \in StoreTranscripts : ReplaceTranscript(xs)
    \/ \E xs \in StoreTranscripts, failing \in {"writeJsonl", "writeJson"} :
           ReplaceTranscriptFails(xs, failing)
    \/ \E compactionCount \in {0, 1} : UpdateMetadata(compactionCount)
    \/ UpdateMetadataFails
    \/ \E bytes \in {1, 2} : Truncate(bytes)

SpecStore == InitStore /\ [][NextStore]_vars

----------------------------------------------------------------------------
(* writeJson and writeJsonl under process deaths: a process makes up to     *)
(* MaxWrites writes of metadata.json and transcript.jsonl, may die at any   *)
(* point of atomicWrite, and the next process reads both files back.        *)
(* outcome holds what the reads returned.                                   *)

MaxWrites == 3

MetadataDocs ==
    { [createdAt |-> 1, updatedAt |-> 1, compactionCount |-> 0, model |-> "m1"],
      [createdAt |-> 1, updatedAt |-> 2, compactionCount |-> 1, model |-> "m1"] }

WrittenTranscripts == StoreTranscripts \cup {<<StringMessage("user", Atom("Hi", 2))>>}

DeathPoints == {"writing", "written", "renamed"}

\* What a writeFileSync cut short has written of the content: all but the end
\* of its last JSON text
TornContent(content) ==
    IF content = <<>> THEN <<>>
    ELSE IF content[Len(content)] = NL
    THEN Append(SubSeq(content, 1, Len(content) - 2), P(content[Len(content) - 1].m))
    ELSE Append(SubSeq(content, 1, Len(content) - 1), P(content[Len(content)].m))

\* hist of this specification: the target of the last write, the target's
\* file before it and as the write would leave it, where the process died in
\* it ("none" when the write returned), and the count of writes
NewWriteHist ==
    [target |-> "none", oldFile |-> <<>>, newFile |-> <<>>, point |-> "none", writes |-> 0]

InitWrite == StoreIs(EmptyDir) /\ LocalsIdle /\ pc = "idle" /\ hist = NewWriteHist

WriteFrame == <<isLoaded, loadedMetadata, loadedMessages, now, userInput, modelCallCount,
                compactionAttempts, callMessages, response, toolIdx, results, keptMessages,
                messagesToCompact, previousSummary, overflow, env, turnNo>>

WriteJson(data) ==
    /\ pc = "idle"
    /\ hist.writes < MaxWrites
    /\ metadataFile' = writeJson(data)
    /\ hist' = [target |-> "metadata.json", oldFile |-> metadataFile,
                newFile |-> writeJson(data), point |-> "none", writes |-> hist.writes + 1]
    /\ UNCHANGED <<transcriptFile, pc, outcome, WriteFrame>>

WriteJsonDies(data, point) ==
    /\ pc = "idle"
    /\ hist.writes < MaxWrites
    /\ metadataFile' = atomicWriteDying(metadataFile, writeJson(data),
                                        TornContent(writeJson(data)), point)
    /\ pc' = "stopped"
    /\ hist' = [target |-> "metadata.json", oldFile |-> metadataFile,
                newFile |-> writeJson(data), point |-> point, writes |-> hist.writes + 1]
    /\ UNCHANGED <<transcriptFile, outcome, WriteFrame>>

WriteJsonl(entries) ==
    /\ pc = "idle"
    /\ hist.writes < MaxWrites
    /\ transcriptFile' = writeJsonl(entries)
    /\ hist' = [target |-> "transcript.jsonl", oldFile |-> transcriptFile,
                newFile |-> writeJsonl(entries), point |-> "none", writes |-> hist.writes + 1]
    /\ UNCHANGED <<metadataFile, pc, outcome, WriteFrame>>

WriteJsonlDies(entries, point) ==
    /\ pc = "idle"
    /\ hist.writes < MaxWrites
    /\ transcriptFile' =
           atomicWriteDying(transcriptFile, writeJsonl(entries),
                            [exists |-> TRUE, content |-> TornContent(JsonlContent(entries))],
                            point)
    /\ pc' = "stopped"
    /\ hist' = [target |-> "transcript.jsonl", oldFile |-> transcriptFile,
                newFile |-> writeJsonl(entries), point |-> point, writes |-> hist.writes + 1]
    /\ UNCHANGED <<metadataFile, outcome, WriteFrame>>

\* A new process reads both files
ReadBack ==
    /\ pc = "stopped"
    /\ pc' = "idle"
    /\ outcome' = [kind |-> "read", metadata |-> readJson(metadataFile),
                   transcript |-> readAllJsonl(transcriptFile)]
    /\ UNCHANGED <<metadataFile, transcriptFile, hist, WriteFrame>>

NextWrite ==
    \/ \E d \in MetadataDocs : WriteJson(d)
    \/ \E d \in MetadataDocs, point \in DeathPoints : WriteJsonDies(d, point)
    \/ \E xs \in WrittenTranscripts : WriteJsonl(xs)
    \/ \E xs \in WrittenTranscripts, point \in DeathPoints : WriteJsonlDies(xs, point)
    \/ ReadBack

SpecWrite == InitWrite /\ [][NextWrite]_vars

----------------------------------------------------------------------------
(* The JSONL reader on arbitrary file contents: transcript.jsonl holds any  *)
(* sequence of at most MaxFileLen tokens, and readAllJsonl is called once.  *)
(* outcome holds what the call returned or threw.                           *)

MaxFileLen == 4

FileTokens ==
    { JsonStringify(StringMessage("user", Atom("Hi", 2))),
      JsonStringify(BlockMessage("assistant", <<TextBlock(Atom("ok", 2))>>)),
      P(JsonValue(StringMessage("user", Atom("Hi", 2)))),
      NL,
      WS }

RECURSIVE FileContents(_)
FileContents(n) ==
    IF n = 0 THEN {<<>>}
    ELSE FileContents(n - 1)
             \cup {Append(c, t) : c \in {d \in FileContents(n - 1) : Len(d) = n - 1},
                                  t \in FileTokens}

InitRead ==
    /\ \E content \in FileContents(MaxFileLen) :
           StoreIs([EmptyDir EXCEPT !.transcriptFile = [exists |-> TRUE, content |-> content]])
    /\ LocalsIdle
    /\ pc = "idle"
    /\ hist = [op |-> "none"]

ReadAllJsonl ==
    /\ pc = "idle"
    /\ pc' = "read"
    /\ outcome' = readAllJsonl(transcriptFile)
    /\ hist' = [op |-> "readAllJsonl"]
    /\ UNCHANGED <<storeVars, userInput, modelCallCount, compactionAttempts, callMessages,
                   response, toolIdx, results, keptMessages, messagesToCompact,
                   previousSummary, overflow, env, turnNo>>

NextRead == ReadAllJsonl

SpecRead == InitRead /\ [][NextRead]_vars

----------------------------------------------------------------------------
(* Properties of the turn loop *)

\* What a fresh reader finds in transcript.jsonl
DiskTranscript == readAllJsonl(transcriptFile)

UserMessage == StringMessage("user", userInput)

InSeq(x, seq) == \E i \in 1..Len(seq) : seq[i] = x

CallInFlight == pc \in {"awaitModel", "awaitSummarizer"}

TurnFailedWith(name) == pc = "idle" /\ outcome.kind = "error" /\ outcome.name = name

\* A step that rewrites the transcript: the end of one triggerCompaction
CompactionStep == hist'.rewrites = hist.rewrites + 1

JustCompacted == hist.last \in {"summarizer_returned", "summarizer_threw"}

IsSuffix(s, t) == Len(s) <= Len(t) /\ s = SubSeq(t, Len(t) - Len(s) + 1, Len(t))

\* C2: while the first callModel invocation of a turn is in flight, be it the
\* conversational call or the summarizer's, transcript.jsonl reads back whole
\* and its last entry is the turn's user message.
C2_UserMessageOnDiskBeforeFirstCall ==
    (CallInFlight /\ hist.calls = 1) =>
        /\ DiskTranscript.ok
        /\ DiskTranscript.entries # <<>>
        /\ DiskTranscript.entries[Len(DiskTranscript.entries)] = UserMessage

C2_Witness == pc = "awaitSummarizer" /\ hist.calls = 1 /\ turnNo = 2

\* C3: when a turn has failed, transcript.jsonl still holds the turn's user
\* message.
C3_FailedTurnKeepsUserMessage ==
    (pc = "idle" /\ outcome.kind = "error") =>
        DiskTranscript.ok /\ InSeq(UserMessage, DiskTranscript.entries)

\* C4: a summarizer call that throws fails the turn with ModelCallError and
\* leaves the transcript and compactionCount as they were.
C4_SummarizerThrowFailsTurn ==
    [][SummarizerThrows =>
          /\ pc' = "idle"
          /\ outcome'.kind = "error"
          /\ outcome'.name = "ModelCallError"
          /\ transcriptFile' = transcriptFile
          /\ loadedMessages' = loadedMessages
          /\ loadedMetadata'.compactionCount = loadedMetadata.compactionCount]_vars

\* C5: a turn makes at most 25 conversational model calls; when the 25th
\* response asks for tools again, the tools are run and then the turn fails
\* with the turn-budget error instead of calling the model a 26th time.
C5_AtMost25ConversationalCalls ==
    /\ hist.convCalls <= 25
    /\ (hist.convCalls = 25 /\ hist.lastStop = "tool_use") =>
           pc = "awaitTool" \/ TurnFailedWith("TurnBudgetExhausted")

C5_Witness ==
    hist.convCalls = 25 /\ hist.lastStop = "tool_use" /\ TurnFailedWith("TurnBudgetExhausted")

\* C6: a turn calls the summarizer and rewrites the transcript at most twice;
\* an overflow after two compactions fails the turn with the
\* compaction-exhausted error, which carries the selector's overflow report.
C6_AtMostTwoCompactions ==
    /\ hist.sumCalls <= 2
    /\ hist.rewrites <= 2
    /\ compactionAttempts <= 2
    /\ (hist.rewrites = 2 /\ ~overflow.isNull) =>
           /\ TurnFailedWith("CompactionExhausted")
           /\ outcome.droppedCount = overflow.droppedCount
           /\ outcome.estimatedDroppedTokens = overflow.estimatedDroppedTokens
           /\ overflow = selectMessages(loadedMessages, tokenBudget).overflow

C6_Witness ==
    /\ TurnFailedWith("CompactionExhausted")
    /\ hist.rewrites = 2
    /\ hist.sumCalls = 2
    /\ outcome.droppedCount >= 1

\* C7 (as stated): every compaction leaves strictly fewer messages than it found.
C7_StrictlyShorter ==
    [][CompactionStep => Len(loadedMessages') < Len(loadedMessages)]_vars

\* C7 (amended): a compaction replaces the d >= 1 oldest messages by one summary
\* message, so the transcript never grows, and it shrinks exactly when d >= 2.
C7_NeverLonger ==
    [][CompactionStep =>
          /\ Len(messagesToCompact) >= 1
          /\ Len(loadedMessages') = Len(loadedMessages) - Len(messagesToCompact) + 1
          /\ Len(loadedMessages') <= Len(loadedMessages)
          /\ (Len(loadedMessages') < Len(loadedMessages) <=> Len(messagesToCompact) >= 2)]_vars

C7_Witness == JustCompacted /\ hist.lastDrop = 1 /\ Len(loadedMessages) = 1

\* C8: a compaction adds exactly one to compactionCount, in memory and on disk,
\* and leaves a transcript, in memory and on disk, whose first message is a user
\* message with string content starting with the summary prefix and whose other
\* messages are the kept ones, a suffix of the transcript it replaced.
C8_SummaryThenKeptSuffix ==
    [][CompactionStep =>
          /\ loadedMetadata'.compactionCount = loadedMetadata.compactionCount + 1
          /\ readJson(metadataFile') = [ok |-> TRUE, value |-> loadedMetadata']
          /\ loadedMessages' # <<>>
          /\ loadedMessages'[1].role = "user"
          /\ loadedMessages'[1].content.str
          /\ StartsWith(loadedMessages'[1].content.text, SUMMARY_PREFIX)
          /\ Tail(loadedMessages') = keptMessages
          /\ IsSuffix(Tail(loadedMessages'), loadedMessages)
          /\ readAllJsonl(transcriptFile') =
                 [ok |-> TRUE, entries |-> JsonValues(loadedMessages')]]_vars

C8_Witness ==
    /\ JustCompacted
    /\ loadedMetadata.compactionCount = 2
    /\ Len(loadedMessages) >= 3
    /\ hist.lastDrop >= 2

\* C9: right after a compaction the transcript's estimated tokens are within
\* budget - reserve, and the selector reports no overflow for the budget.
C9_RewrittenWithinKeepBudget ==
    JustCompacted =>
        /\ estimateMessagesTokens(loadedMessages) <= KeepBudget(tokenBudget)
        /\ selectMessages(loadedMessages, tokenBudget).overflow.isNull

\* tool_use block b of message i is answered by message i + 1
Answered(messages, i, b) ==
    /\ i < Len(messages)
    /\ messages[i + 1].role = "user"
    /\ ~messages[i + 1].content.str
    /\ \E k \in 1..Len(messages[i + 1].content.blocks) :
           /\ messages[i + 1].content.blocks[k].type = "tool_result"
           /\ messages[i + 1].content.blocks[k].tool_use_id = b.id

ToolUsesAnswered(messages) ==
    \A i \in 1..Len(messages) :
        (messages[i].role = "assistant" /\ ~messages[i].content.str) =>
            \A k \in 1..Len(messages[i].content.blocks) :
                messages[i].content.blocks[k].type = "tool_use" =>
                    Answered(messages, i, messages[i].content.blocks[k])

\* C10: whenever a model call is in flight, every tool_use block of the
\* transcript is answered in the next message.
C10_ToolUsesAnsweredAtEveryCall == CallInFlight => ToolUsesAnswered(loadedMessages)

LastOf(seq) == seq[Len(seq)]

HasToolUse(message) ==
    /\ ~message.content.str
    /\ \E k \in 1..Len(message.content.blocks) : message.content.blocks[k].type = "tool_use"

\* C11: whenever a conversational model call is in flight, the messages passed
\* to it are the whole transcript, which is not empty and ends with a user
\* message: it does not end with an assistant message, with or without an
\* unanswered tool_use.
C11_CallEndsWithUserMessage ==
    pc = "awaitModel" =>
        /\ callMessages # <<>>
        /\ callMessages = loadedMessages
        /\ LastOf(callMessages).role = "user"
        /\ ~(LastOf(callMessages).role = "assistant" /\ HasToolUse(LastOf(callMessages)))

C11_Witness ==
    /\ pc = "awaitModel"
    /\ modelCallCount = 1
    /\ ~LastOf(callMessages).content.str
    /\ Len(LastOf(callMessages).content.blocks) = 2
    /\ HasToolUse(callMessages[Len(callMessages) - 1])

\* A step in which dispatchToolCalls returns: the last handler has settled and
\* the bundle is appended
DispatchEnds == pc = "awaitTool" /\ pc' # "awaitTool" /\ hist'.last = "tool_settled"

\* C12: the step that ends the dispatch of a tool_use response appends, right
\* after the assistant message of that response, one user message with exactly
\* one tool_result block per tool_use block of the response, in the same order
\* and with the same ids.
C12_OneResultPerToolUseInOrder ==
    [][DispatchEnds =>
          LET uses == ToolUseBlocks(response)
              bundle == LastOf(loadedMessages')
          IN /\ LastOf(loadedMessages) = AssistantMessage(response)
             /\ loadedMessages' = Append(loadedMessages, bundle)
             /\ bundle.role = "user"
             /\ ~bundle.content.str
             /\ Len(bundle.content.blocks) = Len(uses)
             /\ \A k \in 1..Len(uses) :
                    /\ bundle.content.blocks[k].type = "tool_result"
                    /\ bundle.content.blocks[k].tool_use_id = uses[k].id]_vars

C12_Witness ==
    /\ hist.last = "tool_settled"
    /\ pc = "awaitModel"
    /\ ~LastOf(loadedMessages).content.str
    /\ Len(LastOf(loadedMessages).content.blocks) = 2
    /\ LastOf(loadedMessages).content.blocks[1].tool_use_id = ToolUseId(turnNo, 1, 1)
    /\ LastOf(loadedMessages).content.blocks[2].tool_use_id = ToolUseId(turnNo, 1, 2)
    /\ IsError(LastOf(loadedMessages).content.blocks[2])

\* C13: while a tool handler of a response runs, the first one included,
\* transcript.jsonl reads back whole and its last entry is the assistant message
\* with the response's entire content array, text and tool_use blocks alike.
C13_AssistantOnDiskBeforeHandlers ==
    pc = "awaitTool" =>
        /\ DiskTranscript.ok
        /\ DiskTranscript.entries # <<>>
        /\ LastOf(DiskTranscript.entries) = BlockMessage("assistant", response)
        /\ LastOf(loadedMessages) = BlockMessage("assistant", response)
        /\ toolIdx \in 1..Len(ToolUseBlocks(response))

C13_Witness ==
    /\ pc = "awaitTool"
    /\ results = <<>>
    /\ Len(response) = 3
    /\ response[1].type = "text"
    /\ LastOf(DiskTranscript.entries).content.blocks = response

\* The message is one bundle of tool_result blocks answering, block for block,
\* the tool_use blocks of the assistant message before it.
BundleAnswers(bundle, assistant) ==
    LET uses == IF assistant.content.str THEN <<>>
                ELSE ToolUseBlocks(assistant.content.blocks) IN
    /\ bundle.role = "user"
    /\ ~bundle.content.str
    /\ assistant.role = "assistant"
    /\ uses # <<>>
    /\ Len(bundle.content.blocks) = Len(uses)
    /\ \A k \in 1..Len(uses) :
           /\ bundle.content.blocks[k].type = "tool_result"
           /\ bundle.content.blocks[k].tool_use_id = uses[k].id

\* C14: at the first model call after a tool dispatch, to the conversational
\* model or to the summarizer, transcript.jsonl reads back whole and ends with
\* the assistant message of the dispatch followed by one user message that
\* bundles all its tool_results.
C14_BundleOnDiskBeforeNextCall ==
    (CallInFlight /\ hist.last = "tool_settled") =>
        /\ DiskTranscript.ok
        /\ Len(DiskTranscript.entries) >= 2
        /\ BundleAnswers(LastOf(DiskTranscript.entries),
                         DiskTranscript.entries[Len(DiskTranscript.entries) - 1])

C14_Witness ==
    /\ pc = "awaitSummarizer"
    /\ hist.last = "tool_settled"
    /\ Len(DiskTranscript.entries) >= 2
    /\ Len(LastOf(DiskTranscript.entries).content.blocks) = 2

\* The errors processTurn's own loop ends a turn with
LoopErrors == {"TurnBudgetExhausted", "TokenBudgetExhausted", "CompactionExhausted",
               "InputTooLargeError", "ModelCallError"}

\* The result blocks of the running dispatch after a step: those collected so
\* far, or the bundle just appended
Recorded == IF pc' = "awaitTool" THEN results' ELSE BlocksOf(<<LastOf(loadedMessages')>>, "user")

\* C15: a step in which a tool handler throws never ends the turn with the
\* handler's exception: the dispatch records, for the tool_use block that ran,
\* a tool_result with is_error true whose content is the thrown message, and
\* goes on to the next handler or, through the loop top, to the next model call.
C15_HandlerThrowNeverFailsTurn ==
    [][\A t \in ThrownValues :
          ToolThrows(t) =>
              LET k == Len(results) + 1 IN
              /\ ~(pc' = "idle" /\ outcome'.kind = "error" /\ outcome'.name \notin LoopErrors)
              /\ Len(Recorded) >= k
              /\ Recorded[k].type = "tool_result"
              /\ Recorded[k].tool_use_id = ToolUseBlocks(response)[toolIdx].id
              /\ IsError(Recorded[k])
              /\ Recorded[k].content = ThrownText(t)]_vars

\* The first n strings joined by newlines, built from the last one back
RECURSIVE JoinLines(_, _)
JoinLines(texts, n) ==
    IF n = 0 THEN <<>>
    ELSE IF n = 1 THEN texts[1].text
    ELSE JoinLines(texts, n - 1) \o Atom("\n", 1) \o texts[n].text

\* A step in which processTurn returns its reply, no compaction having run
TurnSucceedsUncompacted ==
    pc = "awaitModel" /\ pc' = "idle" /\ outcome'.kind = "ok" /\ hist.rewrites = 0

\* C16: when a turn without compaction returns after k tool_use responses and
\* one final response, the transcript is the transcript from before the turn,
\* unchanged, followed by exactly 2k+2 messages: the user input, k pairs of an
\* assistant response and its tool-result user message, and the final assistant
\* message; the reply is the final response's text blocks joined by newlines;
\* the file holds the same messages.
C16_SuccessfulTurnAppends2kPlus2 ==
    [][TurnSucceedsUncompacted =>
          LET k == hist.convCalls - 1
              n == Len(hist.before)
              t == loadedMessages'
          IN /\ Len(t) = n + 2 * k + 2
             /\ SubSeq(t, 1, n) = hist.before
             /\ t[n + 1] = UserMessage
             /\ \A j \in 1..k : BundleAnswers(t[n + 2 * j + 1], t[n + 2 * j])
             /\ \E r \in Responses(turnNo, modelCallCount + 1) :
                    LET texts == SelectSeq(r.content, LAMBDA b : b.type = "text") IN
                    /\ r.stop_reason # "tool_use"
                    /\ t[n + 2 * k + 2] = BlockMessage("assistant", r.content)
                    /\ outcome'.text = JoinLines(texts, Len(texts))
             /\ readAllJsonl(transcriptFile') = [ok |-> TRUE, entries |-> JsonValues(t)]]_vars

C16_Witness ==
    /\ pc = "idle"
    /\ outcome.kind = "ok"
    /\ hist.rewrites = 0
    /\ hist.convCalls = 3
    /\ hist.before # <<>>
    /\ Len(loadedMessages) = Len(hist.before) + 6
    /\ outcome.text = Atom("first", 5) \o Atom("\n", 1) \o Atom("second", 6)

----------------------------------------------------------------------------
(* Properties of the store called directly *)

\* load() on a fresh store over the same directory
Reloaded == load(FreshStore(CurStore))

\* Equality of messages by value: a property that is absent and a property set
\* to undefined are the same value (is_error? of a tool_result)
SameMessages(a, b) == JsonValues(a) = JsonValues(b)

\* C17: as long as no storage call has failed, whatever calls the loaded store
\* has served, load() on a fresh store over the same directory succeeds and
\* returns the messages and the metadata the first store holds in memory.
C17_FreshLoadEqualsMemory ==
    (isLoaded /\ hist.storageErrors = 0 /\ hist.cut = 0) =>
        /\ Reloaded.ok
        /\ SameMessages(Reloaded.store.loadedMessages, loadedMessages)
        /\ Len(Reloaded.store.loadedMessages) = Len(loadedMessages)
        /\ Reloaded.store.loadedMetadata = loadedMetadata

C17_Witness ==
    /\ isLoaded
    /\ hist.storageErrors = 0
    /\ hist.cut = 0
    /\ hist.ops = 4
    /\ loadedMetadata.compactionCount = 1
    /\ Len(loadedMessages) = 2
    /\ ~loadedMessages[2].content.str
    /\ loadedMessages[2].content.blocks[1].is_error = Undefined
    /\ Reloaded.ok
    /\ "is_error" \notin DOMAIN Reloaded.store.loadedMessages[2].content.blocks[1]

\* C18: when replaceTranscript(xs) returns, the in-memory messages are xs and a
\* fresh store over the same directory loads xs.
C18_ReplaceTranscriptRoundTrip ==
    [][\A xs \in StoreTranscripts :
          (isLoaded /\ hist'.op = "replaceTranscript" /\ ReplaceTranscript(xs)) =>
              LET reloaded == load(FreshStore([metadataFile |-> metadataFile',
                                               transcriptFile |-> transcriptFile',
                                               isLoaded |-> isLoaded',
                                               loadedMetadata |-> loadedMetadata',
                                               loadedMessages |-> loadedMessages',
                                               now |-> now'])) IN
              /\ loadedMessages' = xs
              /\ reloaded.ok
              /\ Len(reloaded.store.loadedMessages) = Len(xs)
              /\ SameMessages(reloaded.store.loadedMessages, xs)]_vars

C18_Witness ==
    /\ hist.op = "replaceTranscript"
    /\ hist.error = "none"
    /\ hist.ops = 3
    /\ Len(loadedMessages) = 3
    /\ Len(Reloaded.store.loadedMessages) = 3

LoadAfterCut(bytes) ==
    /\ hist.op = "truncate"
    /\ hist.cut = bytes
    /\ isLoaded
    /\ loadedMessages # <<>>
    /\ hist'.op = "load"
    /\ LET whole == JsonlContent(loadedMessages)
           n == Len(whole)
       IN transcriptFile.content =
              IF bytes = 1 THEN SubSeq(whole, 1, n - 1)
              ELSE Append(SubSeq(whole, 1, n - 2), P(whole[n - 1].m))

AllButLast(messages) == SubSeq(messages, 1, Len(messages) - 1)

\* C21 as stated: when the file of n >= 1 appended messages has lost its last
\* byte, load() raises no error and returns exactly the first n-1 messages.
C21_LastByteRemovedDropsLast ==
    [][LoadAfterCut(1) =>
          /\ hist'.error = "none"
          /\ loadedMessages' = JsonValues(AllButLast(loadedMessages))]_vars

\* C21 amended: the last byte of the file is the line feed of the last line, so
\* without it load() raises no error and returns all n messages; when the cut
\* reaches into the JSON text of the last line, load() raises no error and
\* returns exactly the first n-1.
C21_CutTailLoad ==
    [][/\ LoadAfterCut(1) =>
           /\ hist'.error = "none"
           /\ loadedMessages' = JsonValues(loadedMessages)
       /\ LoadAfterCut(2) =>
           /\ hist'.error = "none"
           /\ loadedMessages' = JsonValues(AllButLast(loadedMessages))]_vars

C21_Witness ==
    /\ hist.op = "load"
    /\ hist.error = "none"
    /\ hist.cut = 1
    /\ hist.ops = 5
    /\ hist.storageErrors = 0
    /\ Len(loadedMessages) = 3
    /\ transcriptFile.content[Len(transcriptFile.content)].k = "J"
    /\ Len(transcriptFile.content) = 5

\* C22: after a process died in writeJson or writeJsonl, wherever in the write,
\* the next process reads from the target what it would have read before the
\* write (its complete previous content, or no file) or the complete new
\* content, and the target is one of these two files.
C22_WriteIsAllOrNothing ==
    (pc = "idle" /\ outcome.kind = "read" /\ hist.point # "none") =>
        IF hist.target = "metadata.json"
        THEN /\ metadataFile \in {hist.oldFile, hist.newFile}
             /\ outcome.metadata \in {readJson(hist.oldFile), readJson(hist.newFile)}
             /\ outcome.metadata.ok \/ hist.oldFile = <<>>
        ELSE /\ transcriptFile \in {hist.oldFile, hist.newFile}
             /\ outcome.transcript \in {readAllJsonl(hist.oldFile), readAllJsonl(hist.newFile)}
             /\ outcome.transcript.ok \/ ~hist.oldFile.exists

C22_Witness ==
    /\ pc = "idle"
    /\ outcome.kind = "read"
    /\ hist.point = "writing"
    /\ hist.target = "transcript.jsonl"
    /\ hist.oldFile.exists
    /\ Len(hist.oldFile.content) = 2
    /\ Len(hist.newFile.content) = 6
    /\ outcome.transcript = [ok |-> TRUE, entries |-> <<StringMessage("user", Atom("Hi", 2))>>]

----------------------------------------------------------------------------
(* Properties of the JSONL reader *)

\* An empty line in the reader's sense: nothing but white space
Blank(line) == \A i \in 1..Len(line) : line[i] = WS

\* What is left of a line when its white space is taken out
Inked(line) == SelectSeq(line, LAMBDA t : t # WS)

\* The line is one JSON text, white space around it or not
WellFormed(line) == Len(Inked(line)) = 1 /\ Inked(line)[1].k = "J"

\* What the claim says readAllJsonl gives on a file of these lines
ExpectedRead(lines) ==
    LET nonBlank == {i \in 1..Len(lines) : ~Blank(lines[i])}
        bad == {i \in nonBlank : ~WellFormed(lines[i])}
        good == SelectSeq(lines, LAMBDA l : ~Blank(l) /\ WellFormed(l))
    IN IF \E i \in bad : \E j \in nonBlank : j > i
       THEN [ok |-> FALSE, error |-> "StorageCorruptionError"]
       ELSE [ok |-> TRUE, entries |-> [k \in 1..Len(good) |-> Inked(good[k])[1].m]]

\* C20: readAllJsonl ignores empty lines; a last non-empty line that fails to
\* parse is dropped and the entries before it are returned in order; any other
\* non-empty line that fails to parse makes the call fail with
\* StorageCorruptionError, no entries returned.
C20_ReaderToleratesOnlyTornTail ==
    pc = "read" => outcome = ExpectedRead(SplitLines(transcriptFile.content, 1, <<>>))

C20_Witness ==
    /\ pc = "read"
    /\ transcriptFile.content =
           << JsonStringify(StringMessage("user", Atom("Hi", 2))), NL, NL,
              P(JsonValue(StringMessage("user", Atom("Hi", 2)))) >>
    /\ outcome = [ok |-> TRUE, entries |-> <<StringMessage("user", Atom("Hi", 2))>>]

----------------------------------------------------------------------------
(* compact() called directly: a caller holds an initialized store whose      *)
(* transcript is the drop-set and calls compact(messages, fileOps, config)   *)
(* with config.maxInputTokens drawn from 1..MaxInputWindow.  The action runs *)
(* compact() up to its first await.  hist holds the arguments of the call    *)
(* and the store as it was before it.                                        *)

\* estimated tokens of the first message of a drop-set
MaxDropTokens == 8
\* largest config.maxInputTokens
MaxInputWindow == 16

\* drop-sets: one user message of 0..MaxDropTokens tokens, alone or followed by
\* an assistant message of 1 or 2 tokens
DropSets ==
    {<<>>}
    \cup { <<StringMessage("user", Chars(4 * a))>> : a \in 0..MaxDropTokens }
    \cup { <<StringMessage("user", Chars(4 * a)), StringMessage("assistant", Chars(n))>> :
             a \in 0..MaxDropTokens, n \in {1, 6} }

InitCompact ==
    \E messages \in DropSets, maxInputTokens \in 1..MaxInputWindow :
        LET st == replaceTranscript(initialize(EmptyDir, "m1"), messages) IN
        /\ StoreIs(st)
        /\ LocalsIdle
        /\ pc = "idle"
        /\ hist = [op |-> "none", messages |-> messages, maxInputTokens |-> maxInputTokens,
                   before |-> st]

\* compact(messages, fileOps, config) up to the summarizer call
Compact ==
    /\ pc = "idle"
    /\ hist.op = "none"
    /\ hist' = [hist EXCEPT !.op = "compact"]
    /\ IF hist.messages = <<>>
       THEN /\ pc' = "idle"
            /\ outcome' = [kind |-> "compacted", inputTokens |-> 0]
            /\ UNCHANGED <<callMessages, messagesToCompact>>
       ELSE IF ~canCompact(hist.messages, hist.maxInputTokens)
       THEN /\ pc' = "idle"
            /\ outcome' = Error("InputTooLargeError")
            /\ UNCHANGED <<callMessages, messagesToCompact>>
       ELSE /\ pc' = "awaitSummarizer"
            /\ outcome' = [kind |-> "none"]
            /\ callMessages' = hist.messages
            /\ messagesToCompact' = hist.messages
    /\ UNCHANGED <<storeVars, userInput, modelCallCount, compactionAttempts, response, toolIdx,
                   results, keptMessages, previousSummary, overflow, env, turnNo>>

NextCompact == Compact

SpecCompact == InitCompact /\ [][NextCompact]_vars

----------------------------------------------------------------------------
(* Properties of compact()'s input check *)

\* the least integer not below 1.2 * tokens
CeilOfMargin(tokens) == CHOOSE n \in 0..(2 * tokens + 1) : 5 * n >= 6 * tokens /\ 5 * (n - 1) < 6 * tokens
\* the greatest integer not above 0.75 * window
FloorOfRatio(window) == CHOOSE e \in 0..window : 4 * e <= 3 * window /\ 4 * (e + 1) > 3 * window

RECURSIVE SumOfEstimates(_)
SumOfEstimates(messages) ==
    IF messages = <<>> THEN 0
    ELSE estimateTokens(Head(messages)) + SumOfEstimates(Tail(messages))

InputTooLarge == pc = "idle" /\ outcome = Error("InputTooLargeError")

\* C23: with inputTokens = ceil(1.2 * sum of the estimated tokens of the
\* drop-set), compact() goes on to the summarizer when inputTokens equals
\* floor(0.75 * maxInputTokens) and throws InputTooLargeError when inputTokens is
\* one more (and exactly when it is larger); when it throws, no summarizer call
\* has been issued and the transcript and compactionCount are as before.
C23_InputCheckBoundary ==
    (hist.op = "compact" /\ hist.messages # <<>>) =>
        LET inputTokens == CeilOfMargin(SumOfEstimates(hist.messages))
            limit == FloorOfRatio(hist.maxInputTokens)
        IN /\ inputTokens = limit => pc = "awaitSummarizer" /\ callMessages = hist.messages
           /\ inputTokens = limit + 1 => InputTooLarge
           /\ InputTooLarge <=> inputTokens > limit
           /\ InputTooLarge =>
                /\ callMessages = <<>>
                /\ StoreIs(hist.before)
                /\ loadedMessages = hist.messages
                /\ loadedMetadata.compactionCount = 0
                /\ readAllJsonl(transcriptFile) = [ok |-> TRUE, entries |-> JsonValues(hist.messages)]

C23_Witness ==
    /\ hist.op = "compact"
    /\ InputTooLarge
    /\ Len(hist.messages) = 2
    /\ CeilOfMargin(SumOfEstimates(hist.messages)) = FloorOfRatio(hist.maxInputTokens) + 1
    /\ FloorOfRatio(hist.maxInputTokens) = 9

----------------------------------------------------------------------------
(* The turn loop while the identity files change: processTurn rebuilds the   *)
(* system prompt from the files of homeDir at the top of every iteration,    *)
(* and anything may rewrite them between two turns or while a turn is        *)
(* suspended.  env.systemPromptLen is the length of the prompt the files     *)
(* give now.                                                                 *)

\* the configured prompt, one that leaves a budget of exactly zero, and one
\* that leaves a negative budget
PromptLens == {systemPromptLen, 4 * (contextWindow - maxTokens), 4 * (contextWindow - maxTokens) + 4}

\* the files under homeDir are rewritten: one more deviation of the environment
IdentityFilesChange(len) ==
    /\ len # env.systemPromptLen
    /\ env.deviations < MaxDeviations
    /\ env' = [env EXCEPT !.systemPromptLen = len, !.deviations = @ + 1]
    /\ UNCHANGED <<storeVars, turnVars, histVars>>

NextIdentity ==
    \/ Next
    \/ \E len \in PromptLens : IdentityFilesChange(len)

SpecIdentity == Init /\ [][NextIdentity]_vars

----------------------------------------------------------------------------
(* Properties of the token budget *)

\* the step takes processTurn to the top of the while loop with the loop
\* condition true: the turn starts, a dispatch has appended its bundle, or a
\* compaction has finished
IterationStarts ==
    \/ pc = "idle" /\ turnNo' = turnNo + 1
    \/ /\ pc \in {"awaitModel", "awaitTool"}
       /\ pc' # "awaitTool"
       /\ Len(loadedMessages') > Len(loadedMessages)
       /\ ~loadedMessages'[Len(loadedMessages')].content.str
       /\ loadedMessages'[Len(loadedMessages')].role = "user"
       /\ modelCallCount' < MAX_MODEL_CALLS_PER_TURN
    \/ /\ pc \in {"awaitSummarizer", "awaitCompact"}
       /\ pc' # pc \/ hist' # hist

\* C24: when contextWindow - estimateStringTokens(systemPrompt) - maxTokens is
\* zero or negative at the start of a loop iteration, the turn ends there with
\* the token-budget-exhausted error: the step issues no model or summarizer
\* call and starts no compaction.
C24_NoBudgetNoCall ==
    [][(IterationStarts
          /\ contextWindow - CeilDiv4(env.systemPromptLen) - maxTokens <= 0) =>
         /\ pc' = "idle"
         /\ outcome' = Error("TokenBudgetExhausted")
         /\ callMessages' = <<>>
         /\ hist'.calls = (IF pc = "idle" THEN 0 ELSE hist.calls)
         /\ hist'.sumCalls = (IF pc = "idle" THEN 0 ELSE hist.sumCalls)
         /\ messagesToCompact' = <<>> /\ keptMessages' = <<>>]_vars

\* a turn whose first iteration called the model and dispatched a tool meets a
\* budget of exactly zero at its second iteration
C24_Witness ==
    /\ pc = "idle"
    /\ outcome = Error("TokenBudgetExhausted")
    /\ tokenBudget = 0
    /\ hist.calls = 1
    /\ hist.last = "tool_settled"
    /\ modelCallCount = 1

----------------------------------------------------------------------------
(* selectMessages called directly on a history of at most MaxSelectLen       *)
(* messages whose estimates range over 0..MaxEstimate, with a budget in      *)
(* -1..MaxSelectBudget.  selectMessages reads its messages through the       *)
(* estimator only, so histories with every combination of estimates stand    *)
(* for every estimator.  hist holds the arguments of the call; callMessages  *)
(* and overflow hold the result.                                             *)

MaxSelectLen == 4
MaxEstimate == 3
MaxSelectBudget == 6

\* a message the reference estimator gives e tokens
MessageOf(e) == StringMessage("user", Chars(4 * e))

RECURSIVE Histories(_)
Histories(n) ==
    IF n = 0 THEN {<<>>}
    ELSE Histories(n - 1)
         \cup { Append(ms, MessageOf(e)) : ms \in { h \in Histories(n - 1) : Len(h) = n - 1 },
                                           e \in 0..MaxEstimate }

InitSelect ==
    \E ms \in Histories(MaxSelectLen), budget \in (-1)..MaxSelectBudget :
        /\ StoreIs(EmptyDir)
        /\ LocalsIdle
        /\ pc = "idle"
        /\ hist = [op |-> "none", messages |-> ms, tokenBudget |-> budget]

\* const { selected, overflow } = selectMessages(messages, tokenBudget, estimateTokens)
Select ==
    /\ hist.op = "none"
    /\ hist' = [hist EXCEPT !.op = "select"]
    /\ LET sel == selectMessages(hist.messages, hist.tokenBudget) IN
       /\ callMessages' = sel.selected
       /\ overflow' = sel.overflow
    /\ UNCHANGED <<storeVars, pc, userInput, modelCallCount, compactionAttempts, response,
                   toolIdx, results, keptMessages, messagesToCompact, previousSummary, outcome,
                   env, turnNo>>

NextSelect == Select

SpecSelect == InitSelect /\ [][NextSelect]_vars

----------------------------------------------------------------------------
(* Properties of selectMessages *)

Selected == hist.op = "select"
DroppedPrefix == SubSeq(hist.messages, 1, Len(hist.messages) - Len(callMessages))

\* C25: for a budget >= 0, the selection is a contiguous suffix of the history;
\* overflow is null exactly when the selection has the history's length; a
\* non-null report carries the number of dropped messages and the sum of the
\* estimates of the dropped prefix.
C25_SelectionIsSuffixWithReport ==
    (Selected /\ hist.tokenBudget >= 0) =>
        LET n == Len(hist.messages)
            k == Len(callMessages)
        IN /\ k <= n
           /\ callMessages = SubSeq(hist.messages, n - k + 1, n)
           /\ overflow.isNull <=> k = n
           /\ ~overflow.isNull =>
                /\ overflow.droppedCount = n - k
                /\ overflow.estimatedDroppedTokens = SumOfEstimates(DroppedPrefix)

C25_Witness ==
    /\ Selected
    /\ hist.tokenBudget = 4
    /\ Len(hist.messages) = 4
    /\ Len(callMessages) = 2
    /\ overflow = [isNull |-> FALSE, droppedCount |-> 2, estimatedDroppedTokens |-> 5]

\* the longest suffix of the messages whose estimates are all zero
RECURSIVE ZeroSuffix(_)
ZeroSuffix(messages) ==
    IF messages = <<>> \/ estimateTokens(messages[Len(messages)]) # 0 THEN <<>>
    ELSE Append(ZeroSuffix(SubSeq(messages, 1, Len(messages) - 1)), messages[Len(messages)])

\* C26 as stated: on a non-empty history and a budget of 0 the selection is
\* empty and the report covers the whole history, whatever the (non-negative)
\* estimates are.
C26_ZeroBudgetSelectsNothing ==
    (Selected /\ hist.tokenBudget = 0 /\ hist.messages # <<>>) =>
        /\ callMessages = <<>>
        /\ overflow = [isNull |-> FALSE, droppedCount |-> Len(hist.messages),
                       estimatedDroppedTokens |-> SumOfEstimates(hist.messages)]

\* C26, amended: on a non-empty history and a budget of 0 the selection is the
\* longest suffix of messages whose estimate is 0; it is empty exactly when the
\* newest message has a positive estimate, and then the report covers the whole
\* history: droppedCount = |ms| and estimatedDroppedTokens = the total estimate.
C26_ZeroBudgetSelectsZeroSuffix ==
    (Selected /\ hist.tokenBudget = 0 /\ hist.messages # <<>>) =>
        /\ callMessages = ZeroSuffix(hist.messages)
        /\ callMessages = <<>> <=> estimateTokens(hist.messages[Len(hist.messages)]) > 0
        /\ callMessages = <<>> =>
             overflow = [isNull |-> FALSE, droppedCount |-> Len(hist.messages),
                         estimatedDroppedTokens |-> SumOfEstimates(hist.messages)]
        /\ overflow.isNull <=> SumOfEstimates(hist.messages) = 0

C26_Witness ==
    /\ Selected
    /\ hist.tokenBudget = 0
    /\ Len(hist.messages) = 3
    /\ estimateTokens(hist.messages[1]) = 2
    /\ estimateTokens(hist.messages[2]) = 0
    /\ estimateTokens(hist.messages[3]) = 0
    /\ Len(callMessages) = 2
    /\ overflow = [isNull |-> FALSE, droppedCount |-> 1, estimatedDroppedTokens |-> 2]

\* C30: the selection is the longest suffix that fits: its estimates sum to at
\* most the budget (for a budget >= 0; below zero nothing is selected),
\* extending it by the newest dropped message would exceed the budget, and no
\* message at or before one that does not fit behind the newer ones is
\* selected.
C30_LongestFittingSuffix ==
    Selected =>
        LET n == Len(hist.messages)
            k == Len(callMessages)
        IN /\ callMessages = SubSeq(hist.messages, n - k + 1, n)
           /\ hist.tokenBudget >= 0 => SumOfEstimates(callMessages) <= hist.tokenBudget
           /\ ~overflow.isNull =>
                SumOfEstimates(SubSeq(hist.messages, n - k, n)) > hist.tokenBudget
           /\ \A j \in 1..n :
                SumOfEstimates(SubSeq(hist.messages, j, n)) > hist.tokenBudget
                    => \A i \in 1..j : i <= n - k

\* the newest message fits, the one before does not, and an older one that
\* would fit on its own is dropped with it
C30_Witness ==
    /\ Selected
    /\ hist.tokenBudget = 3
    /\ Len(hist.messages) = 3
    /\ estimateTokens(hist.messages[1]) = 1
    /\ estimateTokens(hist.messages[2]) = 3
    /\ estimateTokens(hist.messages[3]) = 2
    /\ Len(callMessages) = 1
    /\ overflow = [isNull |-> FALSE, droppedCount |-> 2, estimatedDroppedTokens |-> 4]

----------------------------------------------------------------------------
(* Properties of the metadata *)

\* C27: metadata.compactionCount never decreases, whichever store method is
\* called.
C27_CompactionCountNeverDecreases ==
    [][(isLoaded /\ isLoaded') =>
         loadedMetadata'.compactionCount >= loadedMetadata.compactionCount]_vars

----------------------------------------------------------------------------
(* main(): the process loads or initializes the conversation, sends the      *)
(* ready frame and reads stdin line by line; each line is trimmed, parsed    *)
(* and handed to processTurn, and the loop body awaits the turn before it    *)
(* takes the next line.  The agent is the one of Spec.  env gains the        *)
(* position of main (reading a line, awaiting a turn, exited), the number of *)
(* lines and of non-empty lines read, and the frames written to stdout.  A   *)
(* line other than a valid short input is one deviation of the environment.  *)

\* lines read from stdin per run
MaxLines == 3

\* what JSON.parse returns: null, a number, an object
JsonNull == [json |-> "null"]
JsonNumber == [json |-> "number"]
PingMessage == [json |-> "object", type |-> "ping"]
InputMessage(text) == [json |-> "object", type |-> "input", text |-> text]

StdinLines ==
    { <<>>, <<WS>>, <<P(PingMessage)>>, <<J(JsonNull)>>, <<J(JsonNumber)>>, <<J(PingMessage)>> }
    \cup { <<J(InputMessage(u))>> : u \in UserInputs }
    \cup { <<WS, J(InputMessage(DefaultInput)), WS>> }

ReadyFrame == [type |-> "ready"]
OutputFrame(text) == [type |-> "output", text |-> text]
ErrorFrame(message) == [type |-> "error", message |-> message]

InitMain ==
    /\ StoreIs(initialize(EmptyDir, "m1"))
    /\ TurnIdle
    /\ pc = "idle"
    /\ hist = NewHist
    /\ env = [looping |-> FALSE, deviations |-> 0, systemPromptLen |-> systemPromptLen,
              main |-> "reading", linesRead |-> 0, nonEmpty |-> 0, stdout |-> <<ReadyFrame>>]

\* one pass of `for await (const line of rl)` up to the await of processTurn,
\* or round to the next line, or out of main through its catch handler
ReadLine(line, looping) ==
    /\ env.main = "reading"
    /\ pc = "idle"
    /\ env.linesRead < MaxLines
    /\ LET trimmed == Trim(line)
           read == [env EXCEPT !.linesRead = @ + 1,
                               !.nonEmpty = @ + (IF trimmed = <<>> THEN 0 ELSE 1)]
           deviates(e) == /\ env.deviations < MaxDeviations
                          /\ env' = [e EXCEPT !.deviations = @ + 1]
                          /\ UNCHANGED <<storeVars, turnVars, histVars>>
           send(frame) == [read EXCEPT !.stdout = Append(@, frame)]
       IN IF trimmed = <<>> THEN deviates(read)
          ELSE IF ~JsonParses(trimmed)
          THEN deviates(send(ErrorFrame("Invalid JSON on stdin")))
          ELSE LET msg == trimmed[1].m IN
               IF msg = JsonNull
               THEN \* msg.type throws TypeError outside the try blocks
                    deviates([send(ErrorFrame("Fatal: TypeError")) EXCEPT !.main = "exited"])
               ELSE IF ~(msg.json = "object" /\ msg.type = "input" /\ "text" \in DOMAIN msg)
               THEN deviates(send(ErrorFrame("Expected input")))
               ELSE processTurn(msg.text, looping,
                                [read EXCEPT !.main = "awaitTurn",
                                             !.deviations = @ + Cost(line, <<J(msg)>>)])

\* processTurn has settled: send the output frame or the error frame
SendTurnFrame ==
    /\ env.main = "awaitTurn"
    /\ pc = "idle"
    /\ env' = [env EXCEPT !.main = "reading",
                          !.stdout = Append(@, IF outcome.kind = "ok"
                                               THEN OutputFrame(outcome.text)
                                               ELSE ErrorFrame(outcome.name))]
    /\ UNCHANGED <<storeVars, turnVars, histVars>>

NextMain ==
    \/ \E line \in StdinLines, looping \in BOOLEAN : ReadLine(line, looping)
    \/ SendTurnFrame
    \/ \E r \in Responses(turnNo, modelCallCount + 1) : ModelReturns(r)
    \/ ModelThrows
    \/ \E v \in ToolValues : ToolReturns(v)
    \/ \E t \in ThrownValues : ToolThrows(t)
    \/ \E c \in SummaryContents : SummarizerReturns(c)
    \/ SummarizerThrows

SpecMain == InitMain /\ [][NextMain]_vars

----------------------------------------------------------------------------
(* Properties of the stdin loop *)

\* C28: stdout is the ready frame followed by one output or error frame for
\* every non-empty line taken from stdin (all but the one whose turn is still
\* running), and after every frame the loop is there to take the next line.
C28_OneFramePerLineAndNextLineTaken ==
    /\ env.stdout[1] = ReadyFrame
    /\ \A i \in 2..Len(env.stdout) : env.stdout[i].type \in {"output", "error"}
    /\ Len(env.stdout) - 1 = env.nonEmpty - (IF env.main = "awaitTurn" THEN 1 ELSE 0)
    /\ env.main \in {"reading", "awaitTurn"}
    /\ env.main = "reading" <=> pc = "idle" /\ Len(env.stdout) - 1 = env.nonEmpty

----------------------------------------------------------------------------
(* Two processTurn invocations on one agent.  processTurn is an async        *)
(* function over the closure's conversationStore and takes no lock, so a     *)
(* caller that does not await the first promise can start a second           *)
(* invocation while the first is suspended at an await; the event loop then  *)
(* runs the continuations of both in any order.  The turn variables hold the *)
(* locals of the invocation whose stretch runs next, env.other those of the  *)
(* other one; the store is shared.                                           *)

\* the locals of an invocation, with the history of its turn and the behaviour
\* of its model
Frame ==
    [pc |-> pc, userInput |-> userInput, modelCallCount |-> modelCallCount,
     compactionAttempts |-> compactionAttempts, callMessages |-> callMessages,
     response |-> response, toolIdx |-> toolIdx, results |-> results,
     keptMessages |-> keptMessages, messagesToCompact |-> messagesToCompact,
     previousSummary |-> previousSummary, overflow |-> overflow, outcome |-> outcome,
     hist |-> hist, looping |-> env.looping]

IdleFrame ==
    [pc |-> "idle", userInput |-> <<>>, modelCallCount |-> 0, compactionAttempts |-> 0,
     callMessages |-> <<>>, response |-> <<>>, toolIdx |-> 0, results |-> <<>>,
     keptMessages |-> <<>>, messagesToCompact |-> <<>>, previousSummary |-> <<>>,
     overflow |-> NoOverflow, outcome |-> [kind |-> "none"], hist |-> NewHist,
     looping |-> FALSE]

InitOverlap ==
    /\ StoreIs(initialize(EmptyDir, "m1"))
    /\ TurnIdle
    /\ pc = "idle"
    /\ hist = NewHist
    /\ env = [looping |-> FALSE, deviations |-> 0, systemPromptLen |-> systemPromptLen,
              other |-> IdleFrame]

\* the event loop turns to the other invocation: its continuation runs next
\* (or, when it is idle, the caller may start a turn); one more deviation of
\* the environment
Switch ==
    LET f == env.other IN
    /\ pc # "idle" \/ f.pc # "idle"
    /\ env.deviations < MaxDeviations
    /\ pc' = f.pc
    /\ userInput' = f.userInput
    /\ modelCallCount' = f.modelCallCount
    /\ compactionAttempts' = f.compactionAttempts
    /\ callMessages' = f.callMessages
    /\ response' = f.response
    /\ toolIdx' = f.toolIdx
    /\ results' = f.results
    /\ keptMessages' = f.keptMessages
    /\ messagesToCompact' = f.messagesToCompact
    /\ previousSummary' = f.previousSummary
    /\ overflow' = f.overflow
    /\ outcome' = f.outcome
    /\ hist' = f.hist
    /\ env' = [env EXCEPT !.looping = f.looping, !.deviations = @ + 1, !.other = Frame]
    /\ UNCHANGED <<storeVars, turnNo>>

NextOverlap ==
    \/ Next
    \/ Switch

SpecOverlap == InitOverlap /\ [][NextOverlap]_vars

----------------------------------------------------------------------------
(* Properties of overlapping turns *)

\* invocation f is at a conversation call that was handed a message of the
\* turn invocation g has not finished: g's user message, appended after the
\* transcript g started from
SeesUnfinishedTurn(f, g) ==
    /\ f.pc = "awaitModel"
    /\ g.pc # "idle"
    /\ f.hist.rewrites = 0 /\ g.hist.rewrites = 0
    /\ Len(f.hist.before) > Len(g.hist.before)
    /\ Len(f.callMessages) > Len(g.hist.before)
    /\ f.callMessages[Len(g.hist.before) + 1] = StringMessage("user", g.userInput)

\* C29: turns are atomic also when two invocations overlap: when a model call
\* of a turn returns, the transcript is still the one the call was given (what
\* the turn has appended is one block, nothing of another turn follows it), and
\* no model call is handed a message of a turn that has not finished.
C29_OverlappingTurnsAreAtomic ==
    /\ (pc = "awaitModel" /\ overflow.isNull /\ hist.rewrites = 0) =>
            loadedMessages = callMessages
    /\ ~SeesUnfinishedTurn(Frame, env.other)
    /\ ~SeesUnfinishedTurn(env.other, Frame)

----------------------------------------------------------------------------
(* The turn loop with a model that asks for several tools at once: the       *)
(* response holds a tool_use block for a registered tool, one for a tool     *)
(* that is not registered, and another one for the registered tool.          *)

ThreeToolsResponse(turn, call) ==
    [content |-> <<ToolUseBlock(ToolUseId(turn, call, 1), "calc", 2),
                   ToolUseBlock(ToolUseId(turn, call, 2), "nope", 2),
                   ToolUseBlock(ToolUseId(turn, call, 3), "calc", 2)>>,
     stop_reason |-> "tool_use"]

DispatchResponses(turn, call) ==
    IF env.looping THEN {LoopingResponse(turn, call)}
    ELSE {TextResponse, ThreeToolsResponse(turn, call)}

NextDispatch ==
    \/ \E u \in UserInputs, looping \in BOOLEAN : StartTurn(u, looping)
    \/ \E r \in DispatchResponses(turnNo, modelCallCount + 1) : ModelReturns(r)
    \/ ModelThrows
    \/ \E v \in ToolValues : ToolReturns(v)
    \/ \E t \in ThrownValues : ToolThrows(t)
    \/ \E c \in SummaryContents : SummarizerReturns(c)
    \/ SummarizerThrows

SpecDispatch == Init /\ [][NextDispatch]_vars

----------------------------------------------------------------------------
(* Properties of the tool dispatch *)

\* C31: a handler is started either by the step that receives the response or
\* by the step in which the handler before it settles, for a later block; and
\* whenever a handler runs, every tool_use block before its own already has its
\* result, in order, so no two handlers of a dispatch are in flight together.
C31_HandlersOneAtATime ==
    [][pc' = "awaitTool" =>
          LET uses == ToolUseBlocks(response') IN
          /\ \/ pc = "awaitModel"
             \/ /\ pc = "awaitTool"
                /\ hist'.last = "tool_settled"
                /\ response' = response
                /\ toolIdx' > toolIdx
                /\ Len(results') > Len(results)
                /\ SubSeq(results', 1, Len(results)) = results
          /\ toolIdx' \in 1..Len(uses)
          /\ ~ToolMissing(uses[toolIdx'].name)
          /\ Len(results') = toolIdx' - 1
          /\ \A j \in 1..(toolIdx' - 1) : results'[j].tool_use_id = uses[j].id]_vars

\* the third block's handler runs after the first handler has returned and the
\* second block has got its not-found result
C31_Witness ==
    /\ pc = "awaitTool"
    /\ toolIdx = 3
    /\ Len(results) = 2
    /\ ~IsError(results[1])
    /\ IsError(results[2])
    /\ hist.last = "tool_settled"

----------------------------------------------------------------------------
(* Recursive compaction *)

\* compact() has been entered by triggerCompaction and has not resolved yet
Compacting == pc \in {"awaitSummarizer", "awaitCompact"}

\* C32: when a compaction runs on a conversation that has been compacted before,
\* its drop-set is not empty and starts with the transcript's first message,
\* which is the earlier summary message (a user message whose string content
\* starts with the summary prefix), and the previousSummary handed to compact(),
\* and by it to the summarizer, is that content with the prefix removed.
C32_PreviousSummaryFedForward ==
    (Compacting /\ loadedMetadata.compactionCount >= 1) =>
        /\ messagesToCompact # <<>>
        /\ pc = "awaitSummarizer"
        /\ messagesToCompact[1] = loadedMessages[1]
        /\ messagesToCompact[1].role = "user"
        /\ messagesToCompact[1].content.str
        /\ StartsWith(messagesToCompact[1].content.text, SUMMARY_PREFIX)
        /\ previousSummary # <<>>
        /\ SUMMARY_PREFIX \o previousSummary[1] = messagesToCompact[1].content.text

\* The second compaction of a conversation is waiting for its summarizer, with
\* the first compaction's summary as its previousSummary.
C32_Witness ==
    /\ pc = "awaitSummarizer"
    /\ loadedMetadata.compactionCount = 1
    /\ previousSummary = <<Atom("I remember", 10)>>
    /\ Len(messagesToCompact) >= 2

----------------------------------------------------------------------------
(* What a conversational call is given *)

\* the step issues a conversational callModel
ConversationalCallIssued == pc' = "awaitModel" /\ hist' # hist

\* C33: a conversational callModel is issued only in a step whose selectMessages
\* reported no overflow, and the messages it is given are the whole transcript
\* as getMessages() returns it then, which is not empty and fits the token
\* budget of that iteration.
C33_CallGetsWholeTranscript ==
    [][ConversationalCallIssued =>
          /\ overflow' = NoOverflow
          /\ callMessages' = loadedMessages'
          /\ loadedMessages' # <<>>
          /\ estimateMessagesTokens(callMessages')
                 <= contextWindow - CeilDiv4(env.systemPromptLen) - maxTokens]_vars

\* a call issued after a compaction of the same turn, given the summary message
\* and the kept messages behind it
C33_Witness ==
    /\ pc = "awaitModel"
    /\ hist.rewrites >= 1
    /\ Len(callMessages) >= 2
    /\ callMessages = loadedMessages
    /\ callMessages[1].content.str
    /\ StartsWith(callMessages[1].content.text, SUMMARY_PREFIX)

\* C34: while the first conversational model call of a turn is in flight, the
\* messages it was given end with the turn's user message {role: "user",
\* content: userInput}, whether or not a compaction ran before it in the turn.
C34_FirstCallEndsWithUserInput ==
    (pc = "awaitModel" /\ hist.convCalls = 1) =>
        /\ callMessages # <<>>
        /\ LastOf(callMessages) = UserMessage

----------------------------------------------------------------------------
(* The drop-set of a compaction the loop triggers *)

\* the step calls triggerCompaction: it ends suspended inside compact(), or
\* with the error compact() throws before it suspends
CompactionTriggered ==
    /\ turnNo' # turnNo \/ hist' # hist
    /\ \/ pc' \in {"awaitSummarizer", "awaitCompact"}
       \/ pc' = "idle" /\ outcome' = Error("InputTooLargeError")

\* allMessages.slice(0, allMessages.length - keptMessages.length) of that call
TriggeredDropSet ==
    LET budget == contextWindow - CeilDiv4(env.systemPromptLen) - maxTokens
        kept == selectMessages(loadedMessages', KeepBudget(budget)).selected
    IN SubSeq(loadedMessages', 1, Len(loadedMessages') - Len(kept))

SummarizerCallIssued ==
    /\ pc' = "awaitSummarizer"
    /\ hist'.sumCalls = (IF pc = "idle" THEN 0 ELSE hist.sumCalls) + 1
    /\ messagesToCompact' = TriggeredDropSet

\* C35 as stated: whenever the loop triggers compaction the drop-set is not
\* empty, compact() does not take its empty-input branch, and the summarizer is
\* called.
C35_TriggeredCompactionSummarizes ==
    [][CompactionTriggered =>
          /\ TriggeredDropSet # <<>>
          /\ pc' # "awaitCompact"
          /\ SummarizerCallIssued]_vars

\* C35, amended: whenever the loop triggers compaction the drop-set is not empty
\* and compact() does not take its empty-input branch; the summarizer is called
\* exactly when the drop-set passes compact()'s input size check, and otherwise
\* the turn ends with InputTooLargeError without a summarizer call.
C35_DropSetNeverEmpty ==
    [][CompactionTriggered =>
          /\ TriggeredDropSet # <<>>
          /\ pc' # "awaitCompact"
          /\ IF canCompact(TriggeredDropSet, contextWindow)
             THEN SummarizerCallIssued
             ELSE /\ pc' = "idle"
                  /\ hist'.sumCalls = (IF pc = "idle" THEN 0 ELSE hist.sumCalls)]_vars

\* a second compaction of one turn has called the summarizer on a drop-set of
\* the summary message alone, keeping messages behind it
C35_Witness ==
    /\ pc = "awaitSummarizer"
    /\ hist.sumCalls = 2
    /\ Len(messagesToCompact) = 1
    /\ keptMessages # <<>>
    /\ messagesToCompact \o keptMessages = loadedMessages

----------------------------------------------------------------------------
(* Termination of a turn.  processTurn is suspended only at an await of      *)
(* callModel (conversational or the summarizer's) or of a tool handler, and   *)
(* resumes when the awaited promise settles.  The assumption that every such  *)
(* promise settles is weak fairness of the three resumptions,                 *)
(*     WF_vars(A) == []<>~ENABLED <<A>>_vars \/ []<><<A>>_vars,                *)
(* written out below with ENABLED <<A>>_vars replaced by the state predicate  *)
(* it equals: a resumption is enabled exactly while processTurn waits at its  *)
(* await, where the default outcome (a response, a tool value, a summary) is  *)
(* always on offer and always changes pc, the transcript or the results.      *)

ModelSettles == (\E r \in Responses(turnNo, modelCallCount + 1) : ModelReturns(r)) \/ ModelThrows
ToolSettles == (\E v \in ToolValues : ToolReturns(v)) \/ (\E t \in ThrownValues : ToolThrows(t))
SummarizerSettles == (\E c \in SummaryContents : SummarizerReturns(c)) \/ SummarizerThrows

\* every callModel invocation of the loop returns or throws
ModelCallsSettle == []<>(pc # "awaitModel") \/ []<><<ModelSettles>>_vars
\* every tool handler invocation returns or throws
ToolCallsSettle == []<>(pc # "awaitTool") \/ []<><<ToolSettles>>_vars
\* every compact() call, and the summarizer call inside it, returns or throws
SummarizerCallsSettle ==
    []<>(pc \notin {"awaitSummarizer", "awaitCompact"}) \/ []<><<SummarizerSettles>>_vars

SpecTermination == Spec /\ ModelCallsSettle /\ ToolCallsSettle /\ SummarizerCallsSettle

\* the errors thrown by the loop body before its first await
LoopBodyErrors == {"TokenBudgetExhausted", "CompactionExhausted", "InputTooLargeError"}

\* Passes through the body of the while loop made by the turn so far: one per
\* conversational call, one per summarizer call, and the pass that threw
\* before calling anything.
Iterations ==
    hist.convCalls + hist.sumCalls
      + (IF pc = "idle" /\ outcome.kind = "error" /\ outcome.name \in LoopBodyErrors
            /\ hist.last \in {"start", "tool_settled", "summarizer_returned",
                               "summarizer_threw", "model_returned"}
         THEN 1 ELSE 0)

\* C36: a turn makes at most 25 conversational model calls and at most 2
\* summarizer calls, at most 27 passes through the loop body in all, and, every
\* awaited call settling, a running turn always comes to its end, with a text or
\* with an error.
C36_TurnTerminatesWithin27 ==
    /\ [](hist.convCalls <= 25 /\ hist.sumCalls <= 2 /\ Iterations <= 27)
    /\ (pc # "idle") ~> (pc = "idle" /\ outcome.kind \in {"ok", "error"})

\* a turn that has ended after 27 passes
C36_Witness ==
    /\ pc = "idle"
    /\ outcome.kind \in {"ok", "error"}
    /\ Iterations = 27

----------------------------------------------------------------------------
(* Properties of the store over several process lives *)

\* s can be had from t by leaving elements out
RECURSIVE IsSubsequence(_, _)
IsSubsequence(s, t) ==
    IF s = <<>> THEN TRUE
    ELSE IF t = <<>> THEN FALSE
    ELSE IF Head(s) = Head(t) THEN IsSubsequence(Tail(s), Tail(t))
    ELSE IsSubsequence(s, Tail(t))

\* C37: over any number of process deaths and restarts, load() on restart never
\* fails, and whenever no process runs, load() on a fresh store succeeds and
\* returns, in order, every message whose appendMessage has returned, in
\* whichever process; this also for appends made by a process that had loaded a
\* transcript ending in a partial line.
C37_ReturnedAppendsSurviveRestarts ==
    /\ pc # "failed"
    /\ pc = "stopped" =>
           LET loaded == load(FreshStore(CurStore)) IN
           /\ loaded.ok
           /\ IsSubsequence(hist.acked, loaded.store.loadedMessages)

----------------------------------------------------------------------------
(* The process start: main() creates a store over the conversation           *)
(* directory, calls load() and, when load() throws StorageNotFoundError,     *)
(* calls initialize().  The directory starts empty; a process may die inside *)
(* initialize() or, later, as in the store under process crashes.  outcome   *)
(* holds the error a failed start threw.                                     *)

\* where a dying initialize() had got to: before writeJson's rename, between
\* writeJson and writeJsonl's rename, after both writes
InitializePoints == {"before_metadata", "after_metadata", "after_transcript"}

\* What a process that dies at `point` of initialize() leaves behind
initializeDying(st, model, point) ==
    LET done == initialize(st, model) IN
    FreshStore([st EXCEPT
        !.metadataFile = IF point = "before_metadata" THEN st.metadataFile
                         ELSE done.metadataFile,
        !.transcriptFile = IF point = "after_transcript" THEN done.transcriptFile
                           ELSE st.transcriptFile,
        !.now = done.now])

\* main()'s load-or-initialize: the store it ends with and the error it throws
loadOrInitialize(st, model) ==
    LET loaded == load(st) IN
    IF loaded.ok THEN [store |-> loaded.store, error |-> "none"]
    ELSE IF loaded.error # "StorageNotFoundError" THEN [store |-> st, error |-> loaded.error]
    ELSE IF readJson(st.metadataFile).ok
    THEN [store |-> st, error |-> "ConversationAlreadyExistsError"]
    ELSE [store |-> initialize(st, model), error |-> "none"]

bootFrame ==
    <<userInput, modelCallCount, compactionAttempts, callMessages, response, toolIdx, results,
      keptMessages, messagesToCompact, previousSummary, overflow, env, turnNo>>

InitBoot == StoreIs(EmptyDir) /\ LocalsIdle /\ pc = "stopped" /\ hist = NewCrashHist

\* a process starts and gets through load-or-initialize, or fails in it
Boot ==
    /\ pc = "stopped"
    /\ LET started == loadOrInitialize(FreshStore(CurStore), "m1") IN
       /\ SetStore(started.store)
       /\ pc' = IF started.error = "none" THEN "idle" ELSE "failed"
       /\ outcome' = IF started.error = "none" THEN [kind |-> "none"]
                     ELSE Error(started.error)
       /\ hist' = [hist EXCEPT !.base = started.store.loadedMessages, !.passed = <<>>,
                               !.returned = 0,
                               !.clean = WholeLines(transcriptFile,
                                                    started.store.loadedMessages)]
    /\ UNCHANGED bootFrame

\* a process starts on a directory without metadata.json and dies inside
\* initialize()
BootDiesInInitialize(point) ==
    /\ pc = "stopped"
    /\ hist.crashes < MaxCrashes
    /\ ~readJson(metadataFile).ok
    /\ SetStore(initializeDying(FreshStore(CurStore), "m1", point))
    /\ pc' = "stopped"
    /\ hist' = [hist EXCEPT !.crashes = @ + 1]
    /\ UNCHANGED <<outcome, bootFrame>>

NextBoot ==
    \/ Boot
    \/ \E point \in InitializePoints : BootDiesInInitialize(point)
    \/ \E m \in Messages : AppendWritten(m)
    \/ AppendReturns
    \/ \E m \in Messages, cut \in Cuts : CrashInAppend(m, cut)
    \/ Crash
    \/ CrashAfterRename

SpecBoot == InitBoot /\ [][NextBoot]_vars

\* C38: as long as no message has been appended, so that every process death so
\* far happened inside initialize() or between two calls, a process start does
\* not fail: load(), with initialize() when load() reports not-found, ends with
\* a loaded store.
C38_StartAfterCrashInInitializeLoads ==
    hist.appends = 0 => (pc # "failed" /\ (pc = "idle" => isLoaded))

----------------------------------------------------------------------------
(* The turn loop with a process death inside a compaction: the summarizer    *)
(* has returned and the process dies somewhere in the two store calls that   *)
(* end triggerCompaction, replaceTranscript (writeJsonl, then writeJson of   *)
(* the timestamp) and updateMetadata (writeJson of the new count).  pc is    *)
(* "stopped" once the process is gone; env.death records the transcript and  *)
(* the compactionCount in memory when the compaction began and the           *)
(* transcript it was writing.                                                *)

\* how far the dying process got: no rename yet, transcript.jsonl renamed into
\* place, replaceTranscript's metadata write done, updateMetadata's write done
CompactionPoints == {"before_rewrite", "after_rewrite", "after_timestamp", "after_count"}

NoDeath == [at |-> "none", transcript |-> <<>>, rewritten |-> <<>>, compactionCount |-> 0]

InitCompactionCrash ==
    /\ StoreIs(initialize(EmptyDir, "m1"))
    /\ TurnIdle
    /\ env = [looping |-> FALSE, deviations |-> 0, systemPromptLen |-> systemPromptLen,
              death |-> NoDeath]
    /\ pc = "idle"
    /\ hist = NewHist

\* compact() resolves with the summarizer's `content` and the process dies at
\* `point` of what follows
CompactionDies(content, point) ==
    /\ pc = "awaitSummarizer"
    /\ content = ShortSummary \/ ~env.looping
    /\ env.deviations + Cost(content, ShortSummary) <= MaxDeviations
    /\ LET summary == CompactSummary(messagesToCompact, extractTextResponse(content))
           rewritten == NewTranscript(SummaryMessage(summary), keptMessages, loadedMessages)
           st1 == replaceTranscript(CurStore, rewritten)
           st2 == updateMetadata(st1, NextCompactionCount(st1.loadedMetadata))
           left == CASE point = "before_rewrite" -> CurStore
                     [] point = "after_rewrite" ->
                            [CurStore EXCEPT !.transcriptFile = st1.transcriptFile]
                     [] point = "after_timestamp" -> st1
                     [] point = "after_count" -> st2
       IN /\ SetStore(FreshStore(left))
          /\ env' = [env EXCEPT !.deviations = @ + Cost(content, ShortSummary),
                                !.death = [at |-> point, transcript |-> loadedMessages,
                                           rewritten |-> rewritten,
                                           compactionCount |-> loadedMetadata.compactionCount]]
    /\ pc' = "stopped"
    /\ hist' = [hist EXCEPT !.last = "died"]
    /\ UNCHANGED <<userInput, modelCallCount, compactionAttempts, callMessages, response,
                   toolIdx, results, keptMessages, messagesToCompact, previousSummary,
                   overflow, outcome, turnNo>>

NextCompactionCrash ==
    \/ Next
    \/ \E c \in SummaryContents, point \in CompactionPoints : CompactionDies(c, point)

SpecCompactionCrash == InitCompactionCrash /\ [][NextCompactionCrash]_vars

\* C39: after a process death at any point of a compaction, load() on a fresh
\* store succeeds and returns either the transcript as it was before the
\* compaction with the compactionCount of before, or the rewritten transcript
\* with that compactionCount plus one.
C39_CompactionAtomicUnderCrash ==
    pc = "stopped" =>
        LET loaded == load(FreshStore(CurStore)) IN
        /\ loaded.ok
        /\ \/ /\ SameMessages(loaded.store.loadedMessages, env.death.transcript)
              /\ loaded.store.loadedMetadata.compactionCount = env.death.compactionCount
           \/ /\ SameMessages(loaded.store.loadedMessages, env.death.rewritten)
              /\ loaded.store.loadedMetadata.compactionCount = env.death.compactionCount + 1

----------------------------------------------------------------------------
(* Tool pairs across a compaction *)

\* tool_result block b of message i answers a tool_use block of message i - 1
Asked(messages, i, b) ==
    /\ i > 1
    /\ messages[i - 1].role = "assistant"
    /\ ~messages[i - 1].content.str
    /\ \E k \in 1..Len(messages[i - 1].content.blocks) :
           /\ messages[i - 1].content.blocks[k].type = "tool_use"
           /\ messages[i - 1].content.blocks[k].id = b.tool_use_id

ToolResultsAsked(messages) ==
    \A i \in 1..Len(messages) :
        (messages[i].role = "user" /\ ~messages[i].content.str) =>
            \A k \in 1..Len(messages[i].content.blocks) :
                messages[i].content.blocks[k].type = "tool_result" =>
                    Asked(messages, i, messages[i].content.blocks[k])

\* C40: in the transcript a compaction has just written, every tool_result
\* block of a user message has the tool_use block it answers in the assistant
\* message right before it; the message behind the summary is not a tool-result
\* message.
C40_CompactionKeepsToolPairs == JustCompacted => ToolResultsAsked(loadedMessages)

====
